---- MODULE Spec2Model ----
(***************************************************************************)
(* Task orchestration subsystem of the account automation system:         *)
(*   RateLimiter          (src/src/monitoring/MonitoringService.ts)       *)
(*   WorkerHealthMonitor  (src/src/orchestration/WorkerHealthMonitor.ts)  *)
(*   TaskOrchestrator     (src/src/orchestration/TaskOrchestrator.ts)     *)
(* Time is the value of Date.now() in milliseconds.  One action is one    *)
(* macrotask of the Node.js event loop: a public call, a timer callback   *)
(* or the resolution of an executor promise, together with every          *)
(* microtask continuation it triggers.                                    *)
(***************************************************************************)
EXTENDS Integers, Sequences, FiniteSets, TLC

\* ------------------------------------------------------------------------
\* Configuration (SystemConfig.rateLimit, TaskOrchestratorConfig,
\* WorkerHealthConfig) and program constants
\* ------------------------------------------------------------------------
AccountsPerDay == 1
AccountsPerHour == 10
MinDelaySec == 120
MaxDelaySec == 600
BurstCap == 10
CooldownPeriodMs == 1800000
BurstWindowMs == 300000
AttemptWindowMs == 3600000
CooldownMinSamples == 10
ManualCooldownMs == 5000
DayMs == 86400000
HourMs == 3600000
FallbackSlotMs == 60000

MaxConcurrentTasks == 5
TaskTimeoutMs == 30000
RetryDelayMs == 5000
MaxRetryAttempts == 2
HealthCheckTimeoutMs == 60000
MinExecutionMs == 10000

HeartbeatTimeoutMs == 60000
PerformanceWindowMs == 1800000
MinSuccessRatePct == 70
MaxFailureStreak == 5
RecoveryAttemptsCap == 3
RecoveryDelayMs == 30000

\* ------------------------------------------------------------------------
\* Bounds of the exploration
\* ------------------------------------------------------------------------
MaxAdvances == 3
MaxRecords == 2
MaxTasks == 2
MaxEnvCalls == 3
MaxRegistrations == 2
MaxInputs == 5
MaxObjs == 12
MaxMonitorCalls == 5

WorkerIds == {"w1", "w2"}
BatchSizes == {0, 1, 2}
StartTime == DayMs - 2 * 240000
TimeSteps == {240000, 1800000}
OrchTimeSteps == {600000}
MonitorTimeSteps == {HeartbeatTimeoutMs + RecoveryDelayMs}
OrchStartTime == DayMs - 3 * 600000
JitterPerMille == {800, 1199}
OrchJitterPerMille == {1000}
CooldownDurations == {0, ManualCooldownMs}
PreloadCounts == {0, CooldownMinSamples - 1}

\* undefined, and NaN for a counter
Undef == 0 - 1
NaN == 0 - 2

Max(a, b) == IF a >= b THEN a ELSE b
Min(a, b) == IF a <= b THEN a ELSE b

RECURSIVE GCD(_, _)
GCD(a, b) == IF b = 0 THEN a ELSE GCD(b, a % b)

\* a JavaScript number p/q kept as a reduced fraction
Ratio(p, q) == LET g == GCD(p, q) IN [num |-> p \div g, den |-> q \div g]

VARIABLES
    now,              \* Date.now()
    rateState,        \* RateLimiter.state
    nextDailyReset,   \* due time of the daily reset timer
    nextHourlyReset,  \* due time of the hourly reset timer
    tasks,            \* every CreationTask created, by id (1, 2, ...)
    pendingTasks,     \* taskQueue.pending (ids)
    inProgressTasks,  \* taskQueue.inProgress (its keys in insertion order)
    completedTasks,   \* taskQueue.completed
    failedTasks,      \* taskQueue.failed
    workers,          \* TaskOrchestrator.workers
    objs,             \* the WorkerStatus objects
    executions,       \* executeTask calls awaiting their executor
    retryTimers,      \* setTimeout callbacks of failTask
    isRunning,
    isPaused,
    taskProcessingInterval,  \* the one-second interval is set
    pauseRequested,   \* pauseOperations was called and resumeOperations not yet
    hmWorkers,        \* WorkerHealthMonitor.workers
    performanceHistory,
    recoveryAttempts,
    recoveries,       \* monitoring cycles awaiting a recovery delay
    rlObs,            \* observations of the rate limiter's calls
    events,           \* events emitted by the last step
    lastCall,         \* the last step and what it was called on
    dispatched,       \* tasks dispatched since the last reset of the daily counter
    recorded,         \* number of RateLimiter calls made by the driver
    registrations,    \* number of registerWorker calls
    envCalls,         \* number of other calls of the public interface
    advances          \* number of clock advances

rlVars == <<rateState, nextDailyReset, nextHourlyReset, rlObs>>
queueVars == <<tasks, pendingTasks, inProgressTasks, completedTasks, failedTasks>>
workerVars == <<workers, objs, executions, retryTimers>>
runVars == <<isRunning, isPaused, taskProcessingInterval, pauseRequested>>
hmVars == <<hmWorkers, performanceHistory, recoveryAttempts, recoveries>>
orchVars == <<queueVars, workerVars, runVars, hmVars, dispatched, registrations, envCalls>>
vars == <<now, rlVars, orchVars, events, lastCall, recorded, advances>>

\* ------------------------------------------------------------------------
\* RateLimiter
\* ------------------------------------------------------------------------
ReasonCooldown == "System in cooldown period"
ReasonDaily == "Daily limit reached"
ReasonHourly == "Hourly limit reached"
ReasonDelay == "Minimum delay not met"
ReasonBurst == "Burst limit exceeded"

\* constructor: this.state
InitialRateState ==
    [accountsCreatedToday |-> 0,
     accountsCreatedThisHour |-> 0,
     lastAccountCreation |-> 0,
     currentDelay |-> MinDelaySec * 1000,
     isInCooldown |-> FALSE,
     cooldownUntil |-> Undef,
     successRate |-> Ratio(1, 1),
     recentAttempts |-> <<>>]

getNextDayReset(t) == DayMs * ((t \div DayMs) + 1)

getNextHourReset(t) == HourMs * ((t \div HourMs) + 1)

getRecentCreations(st, t, timeWindowMs) ==
    LET cutoff == t - timeWindowMs
    IN Len(SelectSeq(st.recentAttempts, LAMBDA a : a.timestamp > cutoff))

\* recentCreations >= Math.min(10, accountsPerHour / 4)
BurstLimitReached(n) ==
    IF AccountsPerHour >= 4 * BurstCap THEN n >= BurstCap ELSE 4 * n >= AccountsPerHour

Allowed == [allowed |-> TRUE, reason |-> "", waitTimeMs |-> Undef, nextAvailableSlot |-> Undef]

Denied(reason, wait, slot) ==
    [allowed |-> FALSE, reason |-> reason, waitTimeMs |-> wait, nextAvailableSlot |-> slot]

\* the state left by the cooldown block of canCreateAccount
ExpireCooldown(st, t) ==
    IF st.isInCooldown /\ st.cooldownUntil # Undef /\ st.cooldownUntil - t <= 0
    THEN [st EXCEPT !.isInCooldown = FALSE, !.cooldownUntil = Undef]
    ELSE st

\* a cooldown test that still holds at the instant of expiry
CooldownActiveAtExpiry(st, t) ==
    st.isInCooldown /\ st.cooldownUntil # Undef /\ st.cooldownUntil - t >= 0

CooldownActive(st, t) ==
    st.isInCooldown /\ st.cooldownUntil # Undef /\ st.cooldownUntil - t > 0

\* a faulty canCreateAccount (the daily test is > instead of >=), to probe C6
canCreateAccountDailyOffByOne(st, t) ==
    LET s1 == ExpireCooldown(st, t)
        timeSinceLastCreation == t - s1.lastAccountCreation
    IN IF CooldownActive(st, t)
       THEN [res |-> Denied(ReasonCooldown, st.cooldownUntil - t, st.cooldownUntil), st |-> st]
       ELSE IF s1.accountsCreatedToday > AccountsPerDay
       THEN [res |-> Denied(ReasonDaily, getNextDayReset(t) - t, getNextDayReset(t)), st |-> s1]
       ELSE IF s1.accountsCreatedThisHour >= AccountsPerHour
       THEN [res |-> Denied(ReasonHourly, getNextHourReset(t) - t, getNextHourReset(t)), st |-> s1]
       ELSE IF timeSinceLastCreation < s1.currentDelay
       THEN [res |-> Denied(ReasonDelay, s1.currentDelay - timeSinceLastCreation,
                            t + (s1.currentDelay - timeSinceLastCreation)), st |-> s1]
       ELSE IF BurstLimitReached(getRecentCreations(s1, t, BurstWindowMs))
       THEN [res |-> Denied(ReasonBurst, BurstWindowMs, t + BurstWindowMs), st |-> s1]
       ELSE [res |-> Allowed, st |-> s1]

\* a canCreateAccount that tests the hourly limit before the daily limit
canCreateAccountHourlyFirst(st, t) ==
    LET s1 == ExpireCooldown(st, t)
        timeSinceLastCreation == t - s1.lastAccountCreation
    IN IF CooldownActive(st, t)
       THEN [res |-> Denied(ReasonCooldown, st.cooldownUntil - t, st.cooldownUntil), st |-> st]
       ELSE IF s1.accountsCreatedThisHour >= AccountsPerHour
       THEN [res |-> Denied(ReasonHourly, getNextHourReset(t) - t, getNextHourReset(t)), st |-> s1]
       ELSE IF s1.accountsCreatedToday >= AccountsPerDay
       THEN [res |-> Denied(ReasonDaily, getNextDayReset(t) - t, getNextDayReset(t)), st |-> s1]
       ELSE IF timeSinceLastCreation < s1.currentDelay
       THEN [res |-> Denied(ReasonDelay, s1.currentDelay - timeSinceLastCreation,
                            t + (s1.currentDelay - timeSinceLastCreation)), st |-> s1]
       ELSE IF BurstLimitReached(getRecentCreations(s1, t, BurstWindowMs))
       THEN [res |-> Denied(ReasonBurst, BurstWindowMs, t + BurstWindowMs), st |-> s1]
       ELSE [res |-> Allowed, st |-> s1]

\* canCreateAccount: the result and the state it leaves
canCreateAccount(st, t) ==
    LET s1 == ExpireCooldown(st, t)
        timeSinceLastCreation == t - s1.lastAccountCreation
    IN IF CooldownActive(st, t)
       THEN [res |-> Denied(ReasonCooldown, st.cooldownUntil - t, st.cooldownUntil), st |-> st]
       ELSE IF s1.accountsCreatedToday >= AccountsPerDay
       THEN [res |-> Denied(ReasonDaily, getNextDayReset(t) - t, getNextDayReset(t)), st |-> s1]
       ELSE IF s1.accountsCreatedThisHour >= AccountsPerHour
       THEN [res |-> Denied(ReasonHourly, getNextHourReset(t) - t, getNextHourReset(t)), st |-> s1]
       ELSE IF timeSinceLastCreation < s1.currentDelay
       THEN [res |-> Denied(ReasonDelay, s1.currentDelay - timeSinceLastCreation,
                            t + (s1.currentDelay - timeSinceLastCreation)), st |-> s1]
       ELSE IF BurstLimitReached(getRecentCreations(s1, t, BurstWindowMs))
       THEN [res |-> Denied(ReasonBurst, BurstWindowMs, t + BurstWindowMs), st |-> s1]
       ELSE [res |-> Allowed, st |-> s1]

updateSuccessRate(st) ==
    IF Len(st.recentAttempts) = 0
    THEN [st EXCEPT !.successRate = Ratio(1, 1)]
    ELSE LET successfulAttempts == Len(SelectSeq(st.recentAttempts, LAMBDA a : a.success))
         IN [st EXCEPT !.successRate = Ratio(successfulAttempts, Len(st.recentAttempts))]

\* adjustDelayBasedOnSuccessRate without its last statement (the bounds)
adjustDelayBasedOnSuccessRateUnclamped(st, jitter) ==
    LET minDelayMs == MinDelaySec * 1000
        maxDelayMs == MaxDelaySec * 1000
        r == st.successRate
        base == IF 10 * r.num >= 9 * r.den
                THEN minDelayMs + ((maxDelayMs - minDelayMs) * 2) \div 10
                ELSE IF 10 * r.num >= 7 * r.den
                THEN minDelayMs + ((maxDelayMs - minDelayMs) * 5) \div 10
                ELSE minDelayMs + ((maxDelayMs - minDelayMs) * 8) \div 10
    IN [st EXCEPT !.currentDelay = (base * jitter) \div 1000]

\* jitter is 1000 * (0.8 + Math.random() * 0.4)
adjustDelayBasedOnSuccessRate(st, jitter) ==
    LET minDelayMs == MinDelaySec * 1000
        maxDelayMs == MaxDelaySec * 1000
        r == st.successRate
        base == IF 10 * r.num >= 9 * r.den
                THEN minDelayMs + ((maxDelayMs - minDelayMs) * 2) \div 10
                ELSE IF 10 * r.num >= 7 * r.den
                THEN minDelayMs + ((maxDelayMs - minDelayMs) * 5) \div 10
                ELSE minDelayMs + ((maxDelayMs - minDelayMs) * 8) \div 10
        jittered == (base * jitter) \div 1000
    IN [st EXCEPT !.currentDelay = Max(minDelayMs, Min(maxDelayMs, jittered))]

\* durationMs || this.config.cooldownPeriodMs
triggerCooldown(st, t, durationMs) ==
    LET cooldownDuration == IF durationMs = 0 \/ durationMs = Undef
                            THEN CooldownPeriodMs ELSE durationMs
    IN [st EXCEPT !.isInCooldown = TRUE, !.cooldownUntil = t + cooldownDuration]

CooldownTriggerHolds(st) ==
    /\ 10 * st.successRate.num < 3 * st.successRate.den
    /\ Len(st.recentAttempts) >= CooldownMinSamples

\* a faulty checkCooldownTrigger (more than 10 samples needed), to probe C10
checkCooldownTriggerStrict(st, t) ==
    IF /\ 10 * st.successRate.num < 3 * st.successRate.den
       /\ Len(st.recentAttempts) > CooldownMinSamples
    THEN triggerCooldown(st, t, Undef)
    ELSE st

checkCooldownTrigger(st, t) ==
    IF CooldownTriggerHolds(st) THEN triggerCooldown(st, t, Undef) ELSE st

\* a faulty recordAccountCreation (lastAccountCreation is not set), to probe C7
recordAccountCreationKeepingLast(st, t, success, jitter) ==
    LET s1 == [st EXCEPT !.accountsCreatedToday = @ + 1,
                         !.accountsCreatedThisHour = @ + 1]
        oneHourAgo == t - AttemptWindowMs
        s2 == [s1 EXCEPT !.recentAttempts =
                   SelectSeq(Append(@, [timestamp |-> t, success |-> success]),
                             LAMBDA a : a.timestamp > oneHourAgo)]
        s3 == updateSuccessRate(s2)
        s4 == adjustDelayBasedOnSuccessRate(s3, jitter)
    IN checkCooldownTrigger(s4, t)

recordAccountCreation(st, t, success, jitter) ==
    LET s1 == [st EXCEPT !.accountsCreatedToday = @ + 1,
                         !.accountsCreatedThisHour = @ + 1,
                         !.lastAccountCreation = t]
        oneHourAgo == t - AttemptWindowMs
        s2 == [s1 EXCEPT !.recentAttempts =
                   SelectSeq(Append(@, [timestamp |-> t, success |-> success]),
                             LAMBDA a : a.timestamp > oneHourAgo)]
        s3 == updateSuccessRate(s2)
        s4 == adjustDelayBasedOnSuccessRate(s3, jitter)
    IN checkCooldownTrigger(s4, t)

\* getNextAvailableSlot: the Date returned and the state left
getNextAvailableSlot(st, t) ==
    LET c == canCreateAccount(st, t)
    IN [slot |-> IF c.res.allowed THEN t
                 ELSE IF c.res.nextAvailableSlot # Undef THEN c.res.nextAvailableSlot
                 ELSE t + FallbackSlotMs,
        st |-> c.st, res |-> c.res]

\* a reset that keeps the window of recent attempts
resetLimitsKeepingAttempts(st) ==
    [st EXCEPT !.accountsCreatedToday = 0,
               !.accountsCreatedThisHour = 0,
               !.isInCooldown = FALSE,
               !.cooldownUntil = Undef,
               !.successRate = Ratio(1, 1),
               !.currentDelay = MinDelaySec * 1000]

resetLimits(st) ==
    [st EXCEPT !.accountsCreatedToday = 0,
               !.accountsCreatedThisHour = 0,
               !.isInCooldown = FALSE,
               !.cooldownUntil = Undef,
               !.recentAttempts = <<>>,
               !.successRate = Ratio(1, 1),
               !.currentDelay = MinDelaySec * 1000]

resetDailyCounter(st) == [st EXCEPT !.accountsCreatedToday = 0]

resetHourlyCounter(st) == [st EXCEPT !.accountsCreatedThisHour = 0]

\* ------------------------------------------------------------------------
\* Observations of the rate limiter's calls (history, not program state)
\* ------------------------------------------------------------------------
NoCheck ==
    [called |-> FALSE, at |-> 0, pre |-> InitialRateState, res |-> Allowed,
     recordedBefore |-> FALSE, lastRecordAt |-> 0,
     reachedDaily |-> FALSE, cdPending |-> FALSE, cdUntil |-> 0]

InitialObs ==
    [chk |-> NoCheck,
     hasRecorded |-> FALSE,   \* recordAccountCreation has been called
     lastRecordAt |-> 0,      \* time of the most recent recordAccountCreation
     reachedDaily |-> FALSE,  \* accountsCreatedToday reached accountsPerDay since the last reset
     cdPending |-> FALSE,     \* a record triggered the cooldown; no check, resetLimits
                              \* or triggerCooldown call followed
     cdUntil |-> 0,           \* expiry of that cooldown
     lastOp |-> "init"]

\* a canCreateAccount call at time t on state pre, answering res
ObsCheck(o, pre, res, t) ==
    [o EXCEPT !.chk = [called |-> TRUE, at |-> t, pre |-> pre, res |-> res,
                       recordedBefore |-> o.hasRecorded, lastRecordAt |-> o.lastRecordAt,
                       reachedDaily |-> o.reachedDaily,
                       cdPending |-> o.cdPending, cdUntil |-> o.cdUntil],
              !.cdPending = FALSE, !.cdUntil = 0, !.lastOp = "canCreateAccount"]

\* a recordAccountCreation call at time t leaving state post
ObsRecord(o, post, t) ==
    [o EXCEPT !.chk = NoCheck,
              !.hasRecorded = TRUE,
              !.lastRecordAt = t,
              !.reachedDaily = @ \/ post.accountsCreatedToday = AccountsPerDay,
              !.cdPending = IF CooldownTriggerHolds(post) THEN TRUE ELSE @,
              !.cdUntil = IF CooldownTriggerHolds(post) THEN t + CooldownPeriodMs ELSE @,
              !.lastOp = "recordAccountCreation"]

ObsManualCooldown(o) ==
    [o EXCEPT !.chk = NoCheck, !.cdPending = FALSE, !.cdUntil = 0, !.lastOp = "triggerCooldown"]

ObsResetLimits(o) ==
    [o EXCEPT !.chk = NoCheck, !.reachedDaily = FALSE, !.cdPending = FALSE, !.cdUntil = 0,
              !.lastOp = "resetLimits"]

ObsDailyReset(o) == [o EXCEPT !.chk = NoCheck, !.reachedDaily = FALSE, !.lastOp = "resetDailyCounter"]

ObsOther(o, op) == [o EXCEPT !.chk = NoCheck, !.lastOp = op]

\* ------------------------------------------------------------------------
\* Data of the orchestrator and of the health monitor
\* ------------------------------------------------------------------------
\* the key `undefined` of a Map, and the value of an unset assignedWorker
UndefKey == "undefined"
NoTask == 0
NoObj == 0

\* x++ on a counter that may be undefined or NaN
Inc(x) == IF x < 0 THEN NaN ELSE x + 1

\* a < b on JavaScript numbers: false when either side is undefined or NaN
NumLess(a, b) == a >= 0 /\ b >= 0 /\ a < b

Contains(s, x) == \E i \in DOMAIN s : s[i] = x

\* Array.splice(findIndex(x), 1): the first occurrence only
RemoveFirst(s, x) ==
    IF ~Contains(s, x) THEN s
    ELSE LET k == CHOOSE i \in DOMAIN s : s[i] = x /\ \A j \in 1..(i - 1) : s[j] # x
         IN SubSeq(s, 1, k - 1) \o SubSeq(s, k + 1, Len(s))

\* Map.delete and Map.set of the keys of inProgress (insertion order kept)
MapDelete(s, x) == SelectSeq(s, LAMBDA y : y # x)
MapAdd(s, x) == IF Contains(s, x) THEN s ELSE Append(s, x)

\* a Map<string, WorkerStatus> as the sequence of its entries [key, obj];
\* obj is the address of the WorkerStatus object in the heap
RegHas(reg, k) == \E i \in DOMAIN reg : reg[i].key = k
RegGet(reg, k) ==
    IF RegHas(reg, k) THEN reg[CHOOSE i \in DOMAIN reg : reg[i].key = k].obj ELSE NoObj
RegSet(reg, k, o) ==
    IF RegHas(reg, k)
    THEN [i \in DOMAIN reg |-> IF reg[i].key = k THEN [key |-> k, obj |-> o] ELSE reg[i]]
    ELSE Append(reg, [key |-> k, obj |-> o])
RegDelete(reg, k) == SelectSeq(reg, LAMBDA e : e.key # k)

\* heap cells: WorkerStatus objects
FreeObj ==
    [live |-> FALSE, id |-> UndefKey, status |-> "idle", currentTask |-> NoTask,
     lastHeartbeat |-> 0, tasksCompleted |-> 0, tasksSuccessful |-> 0, tasksFailed |-> 0]

Alloc(heap) == CHOOSE i \in 1..MaxObjs : ~heap[i].live /\ \A j \in 1..(i - 1) : heap[j].live

\* registerWorker: the WorkerStatus literal
NewWorker(workerId, t) ==
    [live |-> TRUE, id |-> workerId, status |-> "idle", currentTask |-> NoTask,
     lastHeartbeat |-> t, tasksCompleted |-> 0, tasksSuccessful |-> 0, tasksFailed |-> 0]

\* the object `{} as WorkerStatus` handed to failTask by handleTaskTimeout
EmptyObject ==
    [live |-> TRUE, id |-> UndefKey, status |-> "undefined", currentTask |-> NoTask,
     lastHeartbeat |-> Undef, tasksCompleted |-> Undef, tasksSuccessful |-> Undef,
     tasksFailed |-> Undef]

\* a CreationTask literal whose attempts start at one
NewTaskCountingFirstAttempt(t, batchId) ==
    [status |-> "queued", attempts |-> 1, maxAttempts |-> MaxRetryAttempts,
     batchId |-> batchId, assignedWorker |-> UndefKey, scheduledAt |-> t,
     errorMessage |-> "", completedAt |-> Undef]

\* scheduleAccountCreation: the CreationTask literal
NewTask(t, batchId) ==
    [status |-> "queued", attempts |-> 0, maxAttempts |-> MaxRetryAttempts,
     batchId |-> batchId, assignedWorker |-> UndefKey, scheduledAt |-> t,
     errorMessage |-> "", completedAt |-> Undef]

Event(type, workerId, task, n, status) ==
    [type |-> type, workerId |-> workerId, task |-> task, n |-> n, status |-> status]

Emit(S, e) == [S EXCEPT !.events = Append(@, e)]

\* the state right after both constructors
InitialWorld ==
    [tasks |-> <<>>, pending |-> <<>>, inProgress |-> <<>>, completed |-> <<>>,
     failed |-> <<>>, workers |-> <<>>, objs |-> [i \in 1..MaxObjs |-> FreeObj],
     executions |-> <<>>, retryTimers |-> <<>>,
     hmWorkers |-> <<>>, performanceHistory |-> [w \in WorkerIds |-> <<>>],
     recoveryAttempts |-> [w \in WorkerIds |-> 0], recoveries |-> <<>>,
     rate |-> InitialRateState, events |-> <<>>]

\* ------------------------------------------------------------------------
\* WorkerHealthMonitor
\* ------------------------------------------------------------------------
HM_registerWorker(S, workerId, o) ==
    [S EXCEPT !.hmWorkers = RegSet(@, workerId, o),
              !.performanceHistory[workerId] = <<>>,
              !.recoveryAttempts[workerId] = 0]

HM_unregisterWorker(S, workerId) ==
    [S EXCEPT !.hmWorkers = RegDelete(@, workerId),
              !.performanceHistory[workerId] = <<>>,
              !.recoveryAttempts[workerId] = 0]

\* { ...worker, ...status }: status carries every field, the copy is a new object
HM_updateWorkerStatus(S, workerId, o) ==
    IF ~RegHas(S.hmWorkers, workerId) THEN S
    ELSE LET n == Alloc(S.objs)
         IN [S EXCEPT !.objs[n] = S.objs[o], !.hmWorkers = RegSet(@, workerId, n)]

HM_recordTaskCompletion(S, t, workerId, success, duration) ==
    IF ~RegHas(S.hmWorkers, workerId) THEN S
    ELSE LET o == RegGet(S.hmWorkers, workerId)
             cutoff == t - PerformanceWindowMs
             history == Append(S.performanceHistory[workerId],
                               [timestamp |-> t, success |-> success, duration |-> duration])
         IN [S EXCEPT !.performanceHistory[workerId] =
                          SelectSeq(history, LAMBDA h : h.timestamp > cutoff),
                      !.objs[o].tasksSuccessful = IF success THEN Inc(@) ELSE @,
                      !.objs[o].tasksFailed = IF success THEN @ ELSE Inc(@),
                      !.objs[o].tasksCompleted = Inc(@),
                      !.objs[o].lastHeartbeat = t]

HM_processHeartbeat(S, t, workerId) ==
    IF ~RegHas(S.hmWorkers, workerId) THEN S
    ELSE [S EXCEPT !.objs[RegGet(S.hmWorkers, workerId)].lastHeartbeat = t]

RECURSIVE FailureStreak(_)
FailureStreak(h) ==
    IF h = <<>> \/ h[Len(h)].success THEN 0 ELSE 1 + FailureStreak(SubSeq(h, 1, Len(h) - 1))

\* the metrics of a monitored worker; the success rate is a ratio of task
\* counts, so healthScore is kept as the fraction score / den, den being the
\* number of recent tasks (1 when there is none)
calculatePerformanceMetrics(S, t, workerId) ==
    LET worker == S.objs[RegGet(S.hmWorkers, workerId)]
        recentHistory == SelectSeq(S.performanceHistory[workerId],
                                   LAMBDA h : h.timestamp > t - PerformanceWindowMs)
        totalTasks == Len(recentHistory)
        successfulTasks == Len(SelectSeq(recentHistory, LAMBDA h : h.success))
        den == IF totalTasks > 0 THEN totalTasks ELSE 1
        num == IF totalTasks > 0 THEN successfulTasks ELSE 1
        failureStreak == FailureStreak(recentHistory)
        lowRate == 100 * num < MinSuccessRatePct * den
        stale == t - worker.lastHeartbeat > HeartbeatTimeoutMs
        \* every term multiplied by den
        score == 100 * den
                 - (IF lowRate THEN MinSuccessRatePct * den - 100 * num ELSE 0)
                 - (IF failureStreak > 0 THEN Min(failureStreak * 10, 50) * den ELSE 0)
                 - (IF stale THEN 30 * den ELSE 0)
        healthScore == Max(0, Min(100 * den, score))
    IN [workerId |-> workerId,
        successRate |-> Ratio(num, den),
        failureStreak |-> failureStreak,
        healthScore |-> Ratio(healthScore, den),
        status |-> IF healthScore >= 80 * den THEN "healthy"
                   ELSE IF healthScore >= 60 * den THEN "degraded"
                   ELSE IF S.recoveryAttempts[workerId] # 0 THEN "recovering"
                   ELSE "unhealthy"]

\* performHealthCheck of a monitored worker (it throws for any other id)
performHealthCheck(S, t, workerId) ==
    LET worker == S.objs[RegGet(S.hmWorkers, workerId)]
        metrics == calculatePerformanceMetrics(S, t, workerId)
        issues == (IF t - worker.lastHeartbeat > HeartbeatTimeoutMs THEN {"heartbeat"} ELSE {})
                  \cup (IF 100 * metrics.successRate.num < MinSuccessRatePct * metrics.successRate.den
                        THEN {"successRate"} ELSE {})
                  \cup (IF metrics.failureStreak >= MaxFailureStreak THEN {"failureStreak"} ELSE {})
    IN [workerId |-> workerId, isHealthy |-> issues = {}, issues |-> issues, metrics |-> metrics]

performAllHealthChecks(S, t) ==
    [i \in DOMAIN S.hmWorkers |-> performHealthCheck(S, t, S.hmWorkers[i].key)]

\* ------------------------------------------------------------------------
\* TaskOrchestrator
\* ------------------------------------------------------------------------
reassignTask(S, task) ==
    [S EXCEPT !.tasks[task].assignedWorker = UndefKey,
              !.tasks[task].status = "queued",
              !.inProgress = MapDelete(@, task),
              !.pending = <<task>> \o @]

RECURSIVE reassignTasks(_, _)
reassignTasks(S, ts) ==
    IF ts = <<>> THEN S ELSE reassignTasks(reassignTask(S, Head(ts)), Tail(ts))

\* the status of the registered worker, "undefined" without one
StatusOf(S, workerId) ==
    IF RegHas(S.workers, workerId) THEN S.objs[RegGet(S.workers, workerId)].status
    ELSE "undefined"

SetStatus(S, workerId, status) ==
    IF RegHas(S.workers, workerId)
    THEN [S EXCEPT !.objs[RegGet(S.workers, workerId)].status = status]
    ELSE S

EmitWithStatus(S, type, workerId, n) ==
    Emit(S, Event(type, workerId, NoTask, n, StatusOf(S, workerId)))

attemptWorkerRecovery(S, workerId) ==
    EmitWithStatus(SetStatus(S, workerId, "offline"), "workerRecoveryAttempted", workerId, 0)

\* the in-progress tasks assigned to workerId
tasksToReassign(S, workerId) ==
    SelectSeq(S.inProgress, LAMBDA task : S.tasks[task].assignedWorker = workerId)

\* handleWorkerFailure of a registered worker, from the search of its tasks on
reassignFromFailedWorker(S, workerId) ==
    attemptWorkerRecovery(
        EmitWithStatus(reassignTasks(S, tasksToReassign(S, workerId)),
                       "workerFailed", workerId, Len(tasksToReassign(S, workerId))),
        workerId)

handleWorkerFailure(S, t, workerId) ==
    IF ~RegHas(S.workers, workerId) THEN S
    ELSE reassignFromFailedWorker(
             [S EXCEPT !.objs[RegGet(S.workers, workerId)].status = "failed",
                       !.objs[RegGet(S.workers, workerId)].lastHeartbeat = t],
             workerId)

\* the rate limiter's calls made by the orchestrator
RateRecord(S, t, success, jitter) ==
    [S EXCEPT !.rate = recordAccountCreation(S.rate, t, success, jitter)]

RateCheck(S, t) ==
    [S EXCEPT !.rate = canCreateAccount(S.rate, t).st]

\* healthMonitor.recordTaskCompletion(worker.id, success, duration)
recordHealth(S, t, task, o, success) ==
    HM_recordTaskCompletion(S, t, S.objs[o].id, success, t - S.tasks[task].scheduledAt)

\* the worker update of completeTask (success) and of failTask
releaseWorker(S, t, o, success) ==
    [S EXCEPT !.objs[o].status = "idle",
              !.objs[o].currentTask = NoTask,
              !.objs[o].tasksCompleted = IF success THEN Inc(@) ELSE @,
              !.objs[o].tasksSuccessful = IF success THEN Inc(@) ELSE @,
              !.objs[o].tasksFailed = IF success THEN @ ELSE Inc(@),
              !.objs[o].lastHeartbeat = t]

\* this.workers.set(worker.id, worker); healthMonitor.updateWorkerStatus(worker.id, worker)
storeWorker(S, o) ==
    HM_updateWorkerStatus([S EXCEPT !.workers = RegSet(@, S.objs[o].id, o)], S.objs[o].id, o)

markCompleted(S, t, task) ==
    [S EXCEPT !.tasks[task].status = "completed", !.tasks[task].completedAt = t]

moveToCompleted(S, task) ==
    [S EXCEPT !.inProgress = MapDelete(@, task), !.completed = Append(@, task)]

emitTaskEvent(S, type, task, o) ==
    Emit(S, Event(type, S.objs[o].id, task, S.tasks[task].attempts, S.tasks[task].status))

completeTask(S, t, task, o, jitter) ==
    emitTaskEvent(
        storeWorker(
            releaseWorker(
                moveToCompleted(
                    recordHealth(markCompleted(RateRecord(S, t, TRUE, jitter), t, task),
                                 t, task, o, TRUE),
                    task),
                t, o, TRUE),
            o),
        "taskCompleted", task, o)

\* a failure that is counted on every task in progress
countAttemptOnAll(S, task, message) ==
    [S EXCEPT !.tasks = [x \in DOMAIN @ |->
                            IF x = task \/ Contains(S.inProgress, x)
                            THEN [@[x] EXCEPT !.attempts = @ + 1, !.errorMessage = message]
                            ELSE @[x]]]

countAttempt(S, task, message) ==
    [S EXCEPT !.tasks[task].attempts = @ + 1, !.tasks[task].errorMessage = message]

\* failTask, branch attempts < maxAttempts
scheduleRetry(S, t, task) ==
    [S EXCEPT !.tasks[task].status = "queued",
              !.tasks[task].assignedWorker = UndefKey,
              !.inProgress = MapDelete(@, task),
              !.rate = getNextAvailableSlot(S.rate, t).st,
              !.retryTimers =
                  Append(@, [task |-> task,
                             due |-> t + Max(RetryDelayMs, getNextAvailableSlot(S.rate, t).slot - t)])]

\* failTask, branch attempts >= maxAttempts
failPermanently(S, task, o) ==
    emitTaskEvent([S EXCEPT !.tasks[task].status = "failed",
                            !.inProgress = MapDelete(@, task),
                            !.failed = Append(@, task)],
                  "taskFailed", task, o)

retryOrFail(S, t, task, o) ==
    IF S.tasks[task].attempts < S.tasks[task].maxAttempts
    THEN scheduleRetry(S, t, task)
    ELSE failPermanently(S, task, o)

\* failTask on the worker object at address o
failTaskOn(S, t, task, o, message, jitter) ==
    retryOrFail(
        storeWorker(
            releaseWorker(
                recordHealth(countAttempt(RateRecord(S, t, FALSE, jitter), task, message),
                             t, task, o, FALSE),
                t, o, FALSE),
            o),
        t, task, o)

\* failTask; w is the address of the worker, or NoObj for the literal {}
failTask(S, t, task, w, message, jitter) ==
    IF w = NoObj
    THEN failTaskOn([S EXCEPT !.objs[Alloc(S.objs)] = EmptyObject], t, task, Alloc(S.objs),
                    message, jitter)
    ELSE failTaskOn(S, t, task, w, message, jitter)

\* task.assignedWorker ? this.workers.get(task.assignedWorker) : null
assignedWorkerOf(S, task) ==
    IF S.tasks[task].assignedWorker # UndefKey
    THEN RegGet(S.workers, S.tasks[task].assignedWorker)
    ELSE NoObj

handleTaskTimeout(S, t, task, jitter) ==
    failTask(IF assignedWorkerOf(S, task) # NoObj
             THEN handleWorkerFailure(S, t, S.objs[assignedWorkerOf(S, task)].id)
             ELSE S,
             t, task, assignedWorkerOf(S, task), "Task timeout", jitter)

RECURSIVE handleTaskTimeouts(_, _, _, _)
handleTaskTimeouts(S, t, ts, jitter) ==
    IF ts = <<>> THEN S
    ELSE handleTaskTimeouts(handleTaskTimeout(S, t, Head(ts), jitter), t, Tail(ts), jitter)

\* the loop of checkWorkerHealth from entry i of the registry on
RECURSIVE checkWorkerHealthFrom(_, _, _)
checkWorkerHealthFrom(S, t, i) ==
    IF i > Len(S.workers) THEN S
    ELSE IF /\ t - S.objs[S.workers[i].obj].lastHeartbeat > HealthCheckTimeoutMs
            /\ S.objs[S.workers[i].obj].status # "offline"
         THEN checkWorkerHealthFrom(handleWorkerFailure(S, t, S.workers[i].key), t, i + 1)
         ELSE checkWorkerHealthFrom(S, t, i + 1)

checkWorkerHealth(S, t) == checkWorkerHealthFrom(S, t, 1)

getSystemStatus(S) ==
    [activeWorkers |-> Len(SelectSeq(S.workers,
                           LAMBDA e : S.objs[e.obj].status \in {"idle", "busy"})),
     queuedTasks |-> Len(S.pending) + Len(S.inProgress),
     completedTasks |-> Len(S.completed),
     failedTasks |-> Len(S.failed)]

timeoutTasks(S, t) ==
    SelectSeq(S.inProgress, LAMBDA task : t - S.tasks[task].scheduledAt > TaskTimeoutMs)

emitProgressUpdate(S) ==
    Emit(S, Event("progressUpdate", UndefKey, NoTask, getSystemStatus(S).queuedTasks, ""))

monitorProgress(S, t, jitter) ==
    emitProgressUpdate(checkWorkerHealth(handleTaskTimeouts(S, t, timeoutTasks(S, t), jitter), t))

\* the addresses of the idle workers, in registry order
getAvailableWorkers(S) ==
    LET idle == SelectSeq(S.workers, LAMBDA e : S.objs[e.obj].status = "idle")
    IN [i \in DOMAIN idle |-> idle[i].obj]

\* availableWorkers.reduce((best, current) => ...) over a non-empty array
RECURSIVE selectFrom(_, _, _)
selectFrom(S, best, rest) ==
    IF rest = <<>> THEN best
    ELSE selectFrom(S,
                    IF NumLess(S.objs[Head(rest)].tasksCompleted, S.objs[best].tasksCompleted)
                    THEN Head(rest) ELSE best,
                    Tail(rest))

selectOptimalWorker(S, availableWorkers) ==
    IF availableWorkers = <<>> THEN NoObj
    ELSE selectFrom(S, Head(availableWorkers), Tail(availableWorkers))

\* distributeTask on the selected worker, up to the await of the executor
assignTask(S, t, task, selectedWorker) ==
    [S EXCEPT !.tasks[task].assignedWorker = S.objs[selectedWorker].id,
              !.tasks[task].status = "in-progress",
              !.pending = RemoveFirst(@, task),
              !.inProgress = MapAdd(@, task),
              !.objs[selectedWorker].status = "busy",
              !.objs[selectedWorker].currentTask = task,
              !.workers = RegSet(@, S.objs[selectedWorker].id, selectedWorker),
              !.events = Append(@, Event("taskDistributed", S.objs[selectedWorker].id, task, 0,
                                         "in-progress")),
              !.executions =
                  Append(@, [task |-> task, worker |-> selectedWorker, startedAt |-> t])]

distributeTask(S, t, task, availableWorkers) ==
    IF selectOptimalWorker(S, availableWorkers) = NoObj THEN S
    ELSE assignTask(S, t, task, selectOptimalWorker(S, availableWorkers))

\* processPendingTasks after the rate limit check, without the cap of one task
processAllowedTasksUncapped(S, t) ==
    IF \/ Len(getAvailableWorkers(S)) = 0
       \/ Min(Min(Len(S.pending), Len(getAvailableWorkers(S))),
              MaxConcurrentTasks - Len(S.inProgress)) < 1
    THEN S
    ELSE IF Min(Min(Len(S.pending), Len(getAvailableWorkers(S))),
                MaxConcurrentTasks - Len(S.inProgress)) = 1
    THEN distributeTask(S, t, Head(S.pending), getAvailableWorkers(S))
    ELSE distributeTask(distributeTask(S, t, Head(S.pending), getAvailableWorkers(S)),
                        t, S.pending[2], getAvailableWorkers(S))

\* processPendingTasks after the rate limit check, without the cap on the tasks
\* in progress
processAllowedTasksIgnoringCap(S, t) ==
    IF \/ Len(getAvailableWorkers(S)) = 0
       \/ Min(Min(Len(S.pending), Len(getAvailableWorkers(S))), 1) < 1
    THEN S
    ELSE distributeTask(S, t, Head(S.pending), getAvailableWorkers(S))

\* processPendingTasks after the rate limit check
processAllowedTasks(S, t) ==
    IF \/ Len(getAvailableWorkers(S)) = 0
       \/ Min(Min(Len(S.pending), Len(getAvailableWorkers(S))),
              Min(MaxConcurrentTasks - Len(S.inProgress), 1)) < 1
    THEN S
    ELSE distributeTask(S, t, Head(S.pending), getAvailableWorkers(S))

\* processPendingTasks that goes on after a denied check
processPendingTasksUngated(S, t, paused) ==
    IF paused \/ Len(S.pending) = 0 THEN S
    ELSE processAllowedTasks(RateCheck(S, t), t)

processPendingTasks(S, t, paused) ==
    IF paused \/ Len(S.pending) = 0 THEN S
    ELSE IF ~canCreateAccount(S.rate, t).res.allowed THEN RateCheck(S, t)
    ELSE processAllowedTasks(RateCheck(S, t), t)

registerWorker(S, t, workerId) ==
    Emit(HM_registerWorker([S EXCEPT !.objs[Alloc(S.objs)] = NewWorker(workerId, t),
                                     !.workers = RegSet(@, workerId, Alloc(S.objs))],
                           workerId, Alloc(S.objs)),
         Event("workerRegistered", workerId, NoTask, 0, "idle"))

updateWorkerHeartbeat(S, t, workerId) ==
    IF ~RegHas(S.workers, workerId) THEN S
    ELSE HM_processHeartbeat([S EXCEPT !.objs[RegGet(S.workers, workerId)].lastHeartbeat = t],
                             t, workerId)

unregisterWorker(S, workerId) ==
    Emit(HM_unregisterWorker([S EXCEPT !.workers = RegDelete(@, workerId)], workerId),
         Event("workerUnregistered", workerId, NoTask, 0, ""))

\* ------------------------------------------------------------------------
\* WorkerHealthMonitor: the monitoring cycle and its recovery attempts
\* ------------------------------------------------------------------------
\* the handler of 'workerRecovered' installed by setupHealthMonitorEvents
OnWorkerRecovered(S, workerId) == SetStatus(S, workerId, "idle")

\* emit('workerUnhealthy', check): the issues of the check are kept
emitWorkerUnhealthy(S, check) ==
    Emit(S, Event("workerUnhealthy", check.workerId, NoTask, 0, check.metrics.status)
            @@ [issues |-> check.issues])

\* attemptWorkerRecovery up to the emit of 'workerRecoveryRequested'
requestRecovery(S, workerId) ==
    Emit([S EXCEPT !.recoveryAttempts[workerId] = @ + 1,
                   !.objs = IF RegHas(S.hmWorkers, workerId)
                            THEN [@ EXCEPT ![RegGet(S.hmWorkers, workerId)].status = "offline"]
                            ELSE @],
         Event("workerRecoveryRequested", workerId, NoTask, S.recoveryAttempts[workerId] + 1, ""))

\* the await of the recovery delay: the cycle waits with the checks left
awaitRecoveryDelay(S, t, workerId, rest) ==
    [S EXCEPT !.recoveries =
         Append(@, [workerId |-> workerId, attempt |-> S.recoveryAttempts[workerId],
                    due |-> t + RecoveryDelayMs, rest |-> rest])]

\* performMonitoringCycle from the given health checks on, up to the first
\* await of a recovery delay (the cycle is then kept in S.recoveries)
RECURSIVE performMonitoringCycleFrom(_, _, _)
performMonitoringCycleFrom(S, t, checks) ==
    IF checks = <<>>
    THEN Emit(S, Event("systemHealthUpdate", UndefKey, NoTask, Len(S.hmWorkers), ""))
    ELSE IF Head(checks).isHealthy
    THEN performMonitoringCycleFrom(S, t, Tail(checks))
    ELSE IF \/ Head(checks).metrics.status # "unhealthy"
            \/ S.recoveryAttempts[Head(checks).workerId] >= RecoveryAttemptsCap
    THEN performMonitoringCycleFrom(emitWorkerUnhealthy(S, Head(checks)), t, Tail(checks))
    ELSE awaitRecoveryDelay(
             handleWorkerFailure(
                 requestRecovery(emitWorkerUnhealthy(S, Head(checks)), Head(checks).workerId),
                 t, Head(checks).workerId),
             t, Head(checks).workerId, Tail(checks))

performMonitoringCycle(S, t) == performMonitoringCycleFrom(S, t, performAllHealthChecks(S, t))

\* attemptWorkerRecovery after its delay
finishRecovery(S, t, r) ==
    IF ~RegHas(S.hmWorkers, r.workerId) THEN S
    ELSE IF performHealthCheck(S, t, r.workerId).isHealthy
    THEN OnWorkerRecovered(
             Emit([S EXCEPT !.recoveryAttempts[r.workerId] = 0],
                  Event("workerRecovered", r.workerId, NoTask, r.attempt, "")),
             r.workerId)
    ELSE Emit(S, Event("workerRecoveryFailed", r.workerId, NoTask, r.attempt, ""))

\* ... then the rest of the suspended cycle
resumeRecovery(S, t, i) ==
    performMonitoringCycleFrom(
        finishRecovery([S EXCEPT !.recoveries = SubSeq(@, 1, i - 1) \o SubSeq(@, i + 1, Len(@))],
                       t, S.recoveries[i]),
        t, S.recoveries[i].rest)

\* attemptWorkerRecovery called from outside the monitoring cycle, up to its
\* return (cap reached: the warning is logged and false returned) or to the
\* await of the recovery delay
HM_attemptWorkerRecoveryPastCap(S, t, workerId) ==
    IF S.recoveryAttempts[workerId] > RecoveryAttemptsCap
    THEN Emit(S, Event("maxRecoveryAttemptsReached", workerId, NoTask,
                       S.recoveryAttempts[workerId], "false"))
    ELSE awaitRecoveryDelay(handleWorkerFailure(requestRecovery(S, workerId), t, workerId),
                            t, workerId, <<>>)

HM_attemptWorkerRecovery(S, t, workerId) ==
    IF S.recoveryAttempts[workerId] >= RecoveryAttemptsCap
    THEN Emit(S, Event("maxRecoveryAttemptsReached", workerId, NoTask,
                       S.recoveryAttempts[workerId], "false"))
    ELSE awaitRecoveryDelay(handleWorkerFailure(requestRecovery(S, workerId), t, workerId),
                            t, workerId, <<>>)

\* ------------------------------------------------------------------------
\* Garbage collection: objects are renumbered in the order they are reached
\* from the registry, the monitor and the executor calls in flight
\* ------------------------------------------------------------------------
RECURSIVE Dedup(_)
Dedup(s) ==
    IF s = <<>> THEN <<>>
    ELSE IF Contains(SubSeq(s, 1, Len(s) - 1), s[Len(s)])
    THEN Dedup(SubSeq(s, 1, Len(s) - 1))
    ELSE Append(Dedup(SubSeq(s, 1, Len(s) - 1)), s[Len(s)])

Reachable(S) ==
    Dedup([i \in DOMAIN S.workers |-> S.workers[i].obj]
          \o [i \in DOMAIN S.hmWorkers |-> S.hmWorkers[i].obj]
          \o [i \in DOMAIN S.executions |-> S.executions[i].worker])

Position(order, o) == CHOOSE i \in DOMAIN order : order[i] = o

Renumber(S, order) ==
    [S EXCEPT !.objs = [i \in 1..MaxObjs |-> IF i <= Len(order) THEN S.objs[order[i]] ELSE FreeObj],
              !.workers = [i \in DOMAIN @ |-> [@[i] EXCEPT !.obj = Position(order, @)]],
              !.hmWorkers = [i \in DOMAIN @ |-> [@[i] EXCEPT !.obj = Position(order, @)]],
              !.executions = [i \in DOMAIN @ |-> [@[i] EXCEPT !.worker = Position(order, @)]]]

Collect(S) == Renumber(S, Reachable(S))

\* ------------------------------------------------------------------------
\* The orchestrator as a state machine (Spec)
\* ------------------------------------------------------------------------
Inputs == registrations + envCalls + advances

Call(op, workerId, ts) == [op |-> op, workerId |-> workerId, tasks |-> ts]

NoCall == Call("", UndefKey, <<>>)

\* the events kept for observation
ObservedEvents ==
    {"workerFailed", "workerRecoveryAttempted", "workerUnhealthy",
     "workerRecoveryRequested", "maxRecoveryAttemptsReached", "taskCompleted"}

World ==
    [tasks |-> tasks, pending |-> pendingTasks, inProgress |-> inProgressTasks,
     completed |-> completedTasks, failed |-> failedTasks, workers |-> workers,
     objs |-> objs, executions |-> executions, retryTimers |-> retryTimers,
     hmWorkers |-> hmWorkers, performanceHistory |-> performanceHistory,
     recoveryAttempts |-> recoveryAttempts, recoveries |-> recoveries,
     rate |-> rateState, events |-> <<>>]

\* the step leaves the world C (garbage collected)
Store(C) ==
    /\ tasks' = C.tasks
    /\ pendingTasks' = C.pending
    /\ inProgressTasks' = C.inProgress
    /\ completedTasks' = C.completed
    /\ failedTasks' = C.failed
    /\ workers' = C.workers
    /\ objs' = C.objs
    /\ executions' = C.executions
    /\ retryTimers' = C.retryTimers
    /\ hmWorkers' = C.hmWorkers
    /\ performanceHistory' = C.performanceHistory
    /\ recoveryAttempts' = C.recoveryAttempts
    /\ recoveries' = C.recoveries
    /\ rateState' = C.rate
    /\ rlObs' = InitialObs
    /\ events' = SelectSeq(C.events, LAMBDA e : e.type \in ObservedEvents)

Commit(S) == Store(Collect(S))

Dispatches(S) == Len(SelectSeq(S.events, LAMBDA e : e.type = "taskDistributed"))

Init ==
    /\ now = OrchStartTime
    /\ rateState = InitialRateState
    /\ nextDailyReset = getNextDayReset(OrchStartTime)
    /\ nextHourlyReset = getNextHourReset(OrchStartTime)
    /\ tasks = InitialWorld.tasks
    /\ pendingTasks = InitialWorld.pending
    /\ inProgressTasks = InitialWorld.inProgress
    /\ completedTasks = InitialWorld.completed
    /\ failedTasks = InitialWorld.failed
    /\ workers = InitialWorld.workers
    /\ objs = InitialWorld.objs
    /\ executions = InitialWorld.executions
    /\ retryTimers = InitialWorld.retryTimers
    /\ isRunning = FALSE
    /\ isPaused = FALSE
    /\ pauseRequested = FALSE
    /\ taskProcessingInterval = FALSE
    /\ hmWorkers = InitialWorld.hmWorkers
    /\ performanceHistory = InitialWorld.performanceHistory
    /\ recoveryAttempts = InitialWorld.recoveryAttempts
    /\ recoveries = InitialWorld.recoveries
    /\ rlObs = InitialObs
    /\ events = <<>>
    /\ lastCall = NoCall
    /\ dispatched = 0
    /\ recorded = 0
    /\ registrations = 0
    /\ envCalls = 0
    /\ advances = 0

TimersDue == now >= nextDailyReset \/ now >= nextHourlyReset

\* time passes, at most up to the next reset of a counter
AdvanceClock ==
    /\ advances < MaxAdvances
    /\ Inputs < MaxInputs
    /\ ~TimersDue
    /\ \E d \in OrchTimeSteps :
         now' = Min(now + d, Min(nextDailyReset, nextHourlyReset))
    /\ advances' = advances + 1
    /\ rlObs' = InitialObs
    /\ events' = <<>>
    /\ lastCall' = NoCall
    /\ UNCHANGED <<rateState, nextDailyReset, nextHourlyReset, orchVars, recorded>>

RegisterWorker(workerId) ==
    /\ registrations < MaxRegistrations
    /\ Inputs < MaxInputs
    /\ Commit(registerWorker(World, now, workerId))
    /\ registrations' = registrations + 1
    /\ envCalls' = envCalls
    /\ lastCall' = NoCall
    /\ UNCHANGED <<now, nextDailyReset, nextHourlyReset, runVars, dispatched, recorded, advances>>

UnregisterWorker(workerId) ==
    /\ envCalls < MaxEnvCalls
    /\ Inputs < MaxInputs
    /\ RegHas(workers, workerId)
    /\ Commit(unregisterWorker(World, workerId))
    /\ envCalls' = envCalls + 1
    /\ registrations' = registrations
    /\ lastCall' = NoCall
    /\ UNCHANGED <<now, nextDailyReset, nextHourlyReset, runVars, dispatched, recorded, advances>>

UpdateWorkerHeartbeat(workerId) ==
    /\ envCalls < MaxEnvCalls
    /\ Inputs < MaxInputs
    /\ RegHas(workers, workerId)
    /\ Commit(updateWorkerHeartbeat(World, now, workerId))
    /\ envCalls' = envCalls + 1
    /\ registrations' = registrations
    /\ lastCall' = NoCall
    /\ UNCHANGED <<now, nextDailyReset, nextHourlyReset, runVars, dispatched, recorded, advances>>

\* startProcessing
StartProcessing ==
    IF isRunning \/ isPaused'
    THEN UNCHANGED <<isRunning, taskProcessingInterval>>
    ELSE isRunning' = TRUE /\ taskProcessingInterval' = TRUE

ScheduleAccountCreation(batchSize) ==
    /\ envCalls < MaxEnvCalls
    /\ Inputs < MaxInputs
    /\ Len(tasks) + batchSize <= MaxTasks
    /\ LET \* uuidv4: a task's id is its position in tasks, a batch's id the
           \* position after the tasks that exist when the batch is scheduled
           batchId == Len(tasks) + 1
           taskIds == [i \in 1..batchSize |-> Len(tasks) + i]
           S == [World EXCEPT !.tasks = @ \o [i \in 1..batchSize |-> NewTask(now, batchId)],
                              !.pending = @ \o taskIds]
       IN /\ Commit(Emit(S, Event("batchScheduled", UndefKey, NoTask, batchSize, "")))
          /\ lastCall' = Call("scheduleAccountCreation", UndefKey, taskIds)
    /\ isPaused' = isPaused
    /\ pauseRequested' = pauseRequested
    /\ StartProcessing
    /\ envCalls' = envCalls + 1
    /\ registrations' = registrations
    /\ UNCHANGED <<now, nextDailyReset, nextHourlyReset, dispatched, recorded, advances>>

\* the callback of taskProcessingInterval
ProcessPendingTasks ==
    /\ taskProcessingInterval
    /\ LET S == processPendingTasks(World, now, isPaused)
       IN /\ Commit(S)
          /\ dispatched' = dispatched + Dispatches(S)
    /\ lastCall' = NoCall
    /\ UNCHANGED <<now, nextDailyReset, nextHourlyReset, runVars, recorded, registrations, envCalls, advances>>

RemoveAt(s, i) == SubSeq(s, 1, i - 1) \o SubSeq(s, i + 1, Len(s))

\* the executor promise of execution i resolves: executeTask goes on to completeTask
ExecutorResolves(i) ==
    /\ now - executions[i].startedAt >= MinExecutionMs
    /\ \E jitter \in OrchJitterPerMille :
         Commit(completeTask([World EXCEPT !.executions = RemoveAt(@, i)], now,
                             executions[i].task, executions[i].worker, jitter))
    /\ lastCall' = NoCall
    /\ UNCHANGED <<now, nextDailyReset, nextHourlyReset, runVars, dispatched, recorded,
                   registrations, envCalls, advances>>

\* the executor promise of execution i rejects: executeTask goes on to failTask
ExecutorRejects(i) ==
    /\ now - executions[i].startedAt >= MinExecutionMs
    /\ \E jitter \in OrchJitterPerMille :
         Commit(failTask([World EXCEPT !.executions = RemoveAt(@, i)], now,
                         executions[i].task, executions[i].worker,
                         "Simulated task failure", jitter))
    /\ lastCall' = NoCall
    /\ UNCHANGED <<now, nextDailyReset, nextHourlyReset, runVars, dispatched, recorded,
                   registrations, envCalls, advances>>

\* the setTimeout callback of failTask
RetryTimerFires(i) ==
    /\ now >= retryTimers[i].due
    /\ Commit([World EXCEPT !.pending = Append(@, retryTimers[i].task),
                            !.retryTimers = RemoveAt(@, i)])
    /\ lastCall' = NoCall
    /\ UNCHANGED <<now, nextDailyReset, nextHourlyReset, runVars, dispatched, recorded,
                   registrations, envCalls, advances>>

\* the callback of healthCheckInterval
MonitorProgress ==
    /\ \E jitter \in OrchJitterPerMille : Commit(monitorProgress(World, now, jitter))
    /\ lastCall' = NoCall
    /\ UNCHANGED <<now, nextDailyReset, nextHourlyReset, runVars, dispatched, recorded,
                   registrations, envCalls, advances>>

HandleWorkerFailure(workerId) ==
    /\ envCalls < MaxEnvCalls
    /\ Inputs < MaxInputs
    /\ Commit(handleWorkerFailure(World, now, workerId))
    /\ lastCall' = Call("handleWorkerFailure", workerId,
                        SelectSeq(inProgressTasks, LAMBDA task : tasks[task].assignedWorker = workerId))
    /\ envCalls' = envCalls + 1
    /\ registrations' = registrations
    /\ UNCHANGED <<now, nextDailyReset, nextHourlyReset, runVars, dispatched, recorded, advances>>

\* pauseOperations that only emits its event
PauseOperationsEventOnly ==
    /\ envCalls < MaxEnvCalls
    /\ Inputs < MaxInputs
    /\ pauseRequested' = TRUE
    /\ events' = <<>>
    /\ lastCall' = NoCall
    /\ envCalls' = envCalls + 1
    /\ registrations' = registrations
    /\ UNCHANGED <<now, rlVars, queueVars, workerVars, hmVars, isRunning, isPaused,
                   taskProcessingInterval, dispatched, recorded, advances>>

PauseOperations ==
    /\ envCalls < MaxEnvCalls
    /\ Inputs < MaxInputs
    /\ isPaused' = TRUE
    /\ pauseRequested' = TRUE
    /\ taskProcessingInterval' = FALSE
    /\ events' = <<>>
    /\ lastCall' = NoCall
    /\ envCalls' = envCalls + 1
    /\ registrations' = registrations
    /\ UNCHANGED <<now, rlVars, queueVars, workerVars, hmVars, isRunning, dispatched,
                   recorded, advances>>

ResumeOperations ==
    /\ envCalls < MaxEnvCalls
    /\ Inputs < MaxInputs
    /\ isPaused' = FALSE
    /\ pauseRequested' = FALSE
    /\ StartProcessing
    /\ events' = <<>>
    /\ lastCall' = NoCall
    /\ envCalls' = envCalls + 1
    /\ registrations' = registrations
    /\ UNCHANGED <<now, rlVars, queueVars, workerVars, hmVars, dispatched, recorded, advances>>

TriggerRateLimitCooldown ==
    /\ envCalls < MaxEnvCalls
    /\ Inputs < MaxInputs
    /\ \E d \in CooldownDurations : rateState' = triggerCooldown(rateState, now, d)
    /\ rlObs' = ObsManualCooldown(rlObs)
    /\ events' = <<>>
    /\ lastCall' = NoCall
    /\ envCalls' = envCalls + 1
    /\ registrations' = registrations
    /\ UNCHANGED <<now, nextDailyReset, nextHourlyReset, queueVars, workerVars, runVars,
                   hmVars, dispatched, recorded, advances>>

ResetRateLimits ==
    /\ envCalls < MaxEnvCalls
    /\ Inputs < MaxInputs
    /\ rateState' = resetLimits(rateState)
    /\ rlObs' = ObsResetLimits(rlObs)
    /\ events' = <<>>
    /\ lastCall' = NoCall
    /\ dispatched' = 0
    /\ envCalls' = envCalls + 1
    /\ registrations' = registrations
    /\ UNCHANGED <<now, nextDailyReset, nextHourlyReset, queueVars, workerVars, runVars,
                   hmVars, recorded, advances>>

\* the callback of dailyResetTimer
DailyResetTimer ==
    /\ now >= nextDailyReset
    /\ rateState' = resetDailyCounter(rateState)
    /\ nextDailyReset' = nextDailyReset + DayMs
    /\ rlObs' = ObsDailyReset(rlObs)
    /\ events' = <<>>
    /\ lastCall' = NoCall
    /\ dispatched' = 0
    /\ UNCHANGED <<now, nextHourlyReset, queueVars, workerVars, runVars, hmVars,
                   recorded, registrations, envCalls, advances>>

\* the callback of hourlyResetTimer
HourlyResetTimer ==
    /\ now >= nextHourlyReset
    /\ rateState' = resetHourlyCounter(rateState)
    /\ nextHourlyReset' = nextHourlyReset + HourMs
    /\ rlObs' = ObsOther(rlObs, "resetHourlyCounter")
    /\ events' = <<>>
    /\ lastCall' = NoCall
    /\ UNCHANGED <<now, nextDailyReset, orchVars, recorded, advances>>

\* the callback of monitoringInterval
PerformMonitoringCycle ==
    /\ Commit(performMonitoringCycle(World, now))
    /\ lastCall' = NoCall
    /\ UNCHANGED <<now, nextDailyReset, nextHourlyReset, runVars, dispatched, recorded,
                   registrations, envCalls, advances>>

\* the recovery delay of suspended cycle i is over
RecoveryTimerFires(i) ==
    /\ now >= recoveries[i].due
    /\ Commit(resumeRecovery(World, now, i))
    /\ lastCall' = NoCall
    /\ UNCHANGED <<now, nextDailyReset, nextHourlyReset, runVars, dispatched, recorded,
                   registrations, envCalls, advances>>

Next ==
    \/ AdvanceClock
    \/ \E workerId \in WorkerIds : RegisterWorker(workerId)
    \/ \E workerId \in WorkerIds : UnregisterWorker(workerId)
    \/ \E workerId \in WorkerIds : UpdateWorkerHeartbeat(workerId)
    \/ \E batchSize \in BatchSizes : ScheduleAccountCreation(batchSize)
    \/ ProcessPendingTasks
    \/ \E i \in DOMAIN executions : ExecutorResolves(i)
    \/ \E i \in DOMAIN executions : ExecutorRejects(i)
    \/ \E i \in DOMAIN retryTimers : RetryTimerFires(i)
    \/ MonitorProgress
    \/ \E workerId \in WorkerIds : HandleWorkerFailure(workerId)
    \/ PauseOperations
    \/ ResumeOperations
    \/ TriggerRateLimitCooldown
    \/ ResetRateLimits
    \/ DailyResetTimer
    \/ HourlyResetTimer
    \/ PerformMonitoringCycle
    \/ \E i \in DOMAIN recoveries : RecoveryTimerFires(i)

Spec == Init /\ [][Next]_vars

\* ------------------------------------------------------------------------
\* The rate limiter driven directly (RateSpec)
\* ------------------------------------------------------------------------
RECURSIVE Preload(_, _, _)
Preload(st, t, n) ==
    IF n = 0 THEN st ELSE Preload(recordAccountCreation(st, t, FALSE, 1000), t, n - 1)

RECURSIVE PreloadObs(_, _, _, _)
PreloadObs(o, st, t, n) ==
    IF n = 0 THEN o
    ELSE PreloadObs(ObsRecord(o, recordAccountCreation(st, t, FALSE, 1000), t),
                    recordAccountCreation(st, t, FALSE, 1000), t, n - 1)

RateInit ==
    /\ now = StartTime
    /\ \E k \in PreloadCounts :
         /\ rateState = Preload(InitialRateState, StartTime, k)
         /\ rlObs = [PreloadObs(InitialObs, InitialRateState, StartTime, k) EXCEPT !.lastOp = "init"]
    /\ nextDailyReset = getNextDayReset(StartTime)
    /\ nextHourlyReset = getNextHourReset(StartTime)
    /\ tasks = InitialWorld.tasks
    /\ pendingTasks = InitialWorld.pending
    /\ inProgressTasks = InitialWorld.inProgress
    /\ completedTasks = InitialWorld.completed
    /\ failedTasks = InitialWorld.failed
    /\ workers = InitialWorld.workers
    /\ objs = InitialWorld.objs
    /\ executions = InitialWorld.executions
    /\ retryTimers = InitialWorld.retryTimers
    /\ isRunning = FALSE
    /\ isPaused = FALSE
    /\ pauseRequested = FALSE
    /\ taskProcessingInterval = FALSE
    /\ hmWorkers = InitialWorld.hmWorkers
    /\ performanceHistory = InitialWorld.performanceHistory
    /\ recoveryAttempts = InitialWorld.recoveryAttempts
    /\ recoveries = InitialWorld.recoveries
    /\ events = <<>>
    /\ lastCall = NoCall
    /\ dispatched = 0
    /\ recorded = 0
    /\ registrations = 0
    /\ envCalls = 0
    /\ advances = 0

AdvanceTime ==
    /\ advances < MaxAdvances
    /\ ~TimersDue
    /\ \E d \in TimeSteps :
         now' = Min(now + d, Min(nextDailyReset, nextHourlyReset))
    /\ advances' = advances + 1
    /\ rlObs' = ObsOther(rlObs, "advance")
    /\ lastCall' = NoCall
    /\ UNCHANGED <<rateState, nextDailyReset, nextHourlyReset, orchVars, events, recorded>>

CallCanCreateAccount ==
    /\ LET c == canCreateAccount(rateState, now)
       IN /\ rateState' = c.st
          /\ rlObs' = ObsCheck(rlObs, rateState, c.res, now)
    /\ lastCall' = NoCall
    /\ UNCHANGED <<now, nextDailyReset, nextHourlyReset, orchVars, events, recorded, advances>>

CallRecordAccountCreation ==
    /\ recorded < MaxRecords
    /\ \E success \in BOOLEAN, jitter \in JitterPerMille :
         LET post == recordAccountCreation(rateState, now, success, jitter)
         IN /\ rateState' = post
            /\ rlObs' = ObsRecord(rlObs, post, now)
    /\ recorded' = recorded + 1
    /\ lastCall' = NoCall
    /\ UNCHANGED <<now, nextDailyReset, nextHourlyReset, orchVars, events, advances>>

\* a triggerCooldown call and its argument
TriggerCall(durationMs) == [op |-> "triggerCooldown", durationMs |-> durationMs]

CallTriggerCooldown ==
    /\ \E d \in CooldownDurations :
         /\ rateState' = triggerCooldown(rateState, now, d)
         /\ lastCall' = TriggerCall(d)
    /\ rlObs' = ObsManualCooldown(rlObs)
    /\ UNCHANGED <<now, nextDailyReset, nextHourlyReset, orchVars, events, recorded, advances>>

\* a resetLimits call and the state it found
ResetCall(before) == [op |-> "resetLimits", before |-> before]

CallResetLimits ==
    /\ rateState' = resetLimits(rateState)
    /\ rlObs' = ObsResetLimits(rlObs)
    /\ lastCall' = ResetCall(rateState)
    /\ UNCHANGED <<now, nextDailyReset, nextHourlyReset, orchVars, events, recorded, advances>>

RateNext ==
    \/ AdvanceTime
    \/ CallCanCreateAccount
    \/ CallRecordAccountCreation
    \/ CallTriggerCooldown
    \/ CallResetLimits
    \/ DailyResetTimer
    \/ HourlyResetTimer

RateSpec == RateInit /\ [][RateNext]_vars

\* ------------------------------------------------------------------------
\* canCreateAccount on the states a limiter is in around midnight
\* (DecideSpec): a number of successful creations recorded one minute before
\* midnight, a manual cooldown or none, the reset timers run or not yet
\* ------------------------------------------------------------------------
DecideRecordTime == DayMs - 60000

\* the times of the call: before midnight, at midnight, and after it
DecideTimes == {DecideRecordTime + 30000, DayMs, DayMs + 180000, DayMs + 600000}

DecideCounts == {0, 1, BurstCap}

\* no cooldown, one that has expired at every call, one that lasts
DecideCooldowns == {Undef, ManualCooldownMs, CooldownPeriodMs}

\* the reset timers that have run at time t
DecideResets(t) ==
    IF t < DayMs THEN {{}}
    ELSE IF t = DayMs THEN SUBSET {"daily", "hourly"}
    ELSE {{"daily", "hourly"}}

RECURSIVE RecordSuccesses(_, _, _)
RecordSuccesses(st, t, n) ==
    IF n = 0 THEN st ELSE RecordSuccesses(recordAccountCreation(st, t, TRUE, 1000), t, n - 1)

DecideState(k, cd, resets) ==
    LET s1 == RecordSuccesses(InitialRateState, DecideRecordTime, k)
        s2 == IF cd = Undef THEN s1 ELSE triggerCooldown(s1, DecideRecordTime, cd)
        s3 == IF "daily" \in resets THEN resetDailyCounter(s2) ELSE s2
    IN IF "hourly" \in resets THEN resetHourlyCounter(s3) ELSE s3

DecideInit ==
    /\ \E t \in DecideTimes, k \in DecideCounts, cd \in DecideCooldowns :
         \E resets \in DecideResets(t) :
            /\ now = t
            /\ rateState = DecideState(k, cd, resets)
            /\ nextDailyReset = IF "daily" \in resets THEN 2 * DayMs ELSE DayMs
            /\ nextHourlyReset = IF "hourly" \in resets THEN DayMs + HourMs ELSE DayMs
            /\ rlObs = [InitialObs EXCEPT !.hasRecorded = k > 0,
                                          !.lastRecordAt = IF k > 0 THEN DecideRecordTime ELSE 0]
    /\ tasks = InitialWorld.tasks
    /\ pendingTasks = InitialWorld.pending
    /\ inProgressTasks = InitialWorld.inProgress
    /\ completedTasks = InitialWorld.completed
    /\ failedTasks = InitialWorld.failed
    /\ workers = InitialWorld.workers
    /\ objs = InitialWorld.objs
    /\ executions = InitialWorld.executions
    /\ retryTimers = InitialWorld.retryTimers
    /\ isRunning = FALSE
    /\ isPaused = FALSE
    /\ pauseRequested = FALSE
    /\ taskProcessingInterval = FALSE
    /\ hmWorkers = InitialWorld.hmWorkers
    /\ performanceHistory = InitialWorld.performanceHistory
    /\ recoveryAttempts = InitialWorld.recoveryAttempts
    /\ recoveries = InitialWorld.recoveries
    /\ events = <<>>
    /\ lastCall = NoCall
    /\ dispatched = 0
    /\ recorded = 0
    /\ registrations = 0
    /\ envCalls = 0
    /\ advances = 0

DecideNext == CallCanCreateAccount

DecideSpec == DecideInit /\ [][DecideNext]_vars

\* ------------------------------------------------------------------------
\* The tick loop at the cap of concurrent tasks (CapSpec): the orchestrator
\* after some workers were registered, one batch was scheduled and the
\* interval fired a number of times, all within MinExecutionMs
\* ------------------------------------------------------------------------
CapWorkers == <<"w1", "w2", "w3", "w4", "w5", "w6">>
CapBatchSizes == 0..(MaxConcurrentTasks + 2)
CapTicks == 0..(MaxConcurrentTasks + 1)

CapInitialWorld ==
    [InitialWorld EXCEPT
        !.performanceHistory = [w \in {CapWorkers[i] : i \in DOMAIN CapWorkers} |-> <<>>],
        !.recoveryAttempts = [w \in {CapWorkers[i] : i \in DOMAIN CapWorkers} |-> 0]]

\* registerWorker for the first n workers
RECURSIVE RegisterWorkers(_, _, _)
RegisterWorkers(S, t, n) ==
    IF n = 0 THEN S ELSE registerWorker(RegisterWorkers(S, t, n - 1), t, CapWorkers[n])

\* scheduleAccountCreation(batchSize) on an orchestrator without tasks
ScheduleBatch(S, t, batchSize) ==
    [S EXCEPT !.tasks = [i \in 1..batchSize |-> NewTask(t, 1)],
              !.pending = [i \in 1..batchSize |-> i]]

\* k firings of the interval
RECURSIVE Ticks(_, _, _)
Ticks(S, t, k) ==
    IF k = 0 THEN S ELSE processPendingTasks(Ticks(S, t, k - 1), t, FALSE)

CapState(n, batchSize, k) ==
    Collect(Ticks(ScheduleBatch(RegisterWorkers(CapInitialWorld, OrchStartTime, n),
                                OrchStartTime, batchSize),
                  OrchStartTime, k))

CapInit ==
    /\ now = OrchStartTime + MinExecutionMs
    /\ nextDailyReset = getNextDayReset(OrchStartTime)
    /\ nextHourlyReset = getNextHourReset(OrchStartTime)
    /\ \E n \in DOMAIN CapWorkers, batchSize \in CapBatchSizes, k \in CapTicks :
         /\ rateState = CapState(n, batchSize, k).rate
         /\ tasks = CapState(n, batchSize, k).tasks
         /\ pendingTasks = CapState(n, batchSize, k).pending
         /\ inProgressTasks = CapState(n, batchSize, k).inProgress
         /\ completedTasks = CapState(n, batchSize, k).completed
         /\ failedTasks = CapState(n, batchSize, k).failed
         /\ workers = CapState(n, batchSize, k).workers
         /\ objs = CapState(n, batchSize, k).objs
         /\ executions = CapState(n, batchSize, k).executions
         /\ retryTimers = CapState(n, batchSize, k).retryTimers
         /\ hmWorkers = CapState(n, batchSize, k).hmWorkers
         /\ performanceHistory = CapState(n, batchSize, k).performanceHistory
         /\ recoveryAttempts = CapState(n, batchSize, k).recoveryAttempts
         /\ recoveries = CapState(n, batchSize, k).recoveries
         /\ dispatched = 0
         /\ registrations = n
    /\ isRunning = TRUE
    /\ isPaused = FALSE
    /\ pauseRequested = FALSE
    /\ taskProcessingInterval = TRUE
    /\ rlObs = InitialObs
    /\ events = <<>>
    /\ lastCall = NoCall
    /\ recorded = 0
    /\ envCalls = 1
    /\ advances = 0

CapNext ==
    \/ ProcessPendingTasks
    \/ \E i \in DOMAIN executions : ExecutorResolves(i)

CapSpec == CapInit /\ [][CapNext]_vars

\* ------------------------------------------------------------------------
\* The health monitor driven directly (MonitorSpec): the orchestrator's
\* handlers are attached, its registry stays empty
\* ------------------------------------------------------------------------
\* a call of the monitor, with the recovery counters it found and the workers
\* due for a recovery attempt
MonitorCall(op, workerId, due) ==
    [op |-> op, workerId |-> workerId, tasks |-> <<>>, before |-> recoveryAttempts, due |-> due]

\* the health score of a monitored worker is under 60
MetricsUnhealthy(workerId) ==
    /\ RegHas(hmWorkers, workerId)
    /\ calculatePerformanceMetrics(World, now, workerId).status \in {"unhealthy", "recovering"}

\* the first worker, in the order of the checks, whose metrics are unhealthy:
\* the cycle reaches it before it awaits anything
FirstUnhealthy ==
    {w \in WorkerIds :
        /\ MetricsUnhealthy(w)
        /\ \A i \in DOMAIN hmWorkers :
              (\E j \in DOMAIN hmWorkers : j > i /\ hmWorkers[j].key = w)
                  => ~MetricsUnhealthy(hmWorkers[i].key)}

MonitorInit == Init

\* the calls made and the clock steps taken so far
MonitorInputs == envCalls + advances

MonitorUnchanged ==
    UNCHANGED <<rlVars, queueVars, workers, executions, retryTimers, runVars, dispatched,
                recorded, registrations>>

MonitorStore(S) ==
    /\ objs' = Collect(S).objs
    /\ hmWorkers' = Collect(S).hmWorkers
    /\ performanceHistory' = S.performanceHistory
    /\ recoveryAttempts' = S.recoveryAttempts
    /\ recoveries' = S.recoveries
    /\ events' = SelectSeq(S.events, LAMBDA e : e.type \in ObservedEvents)
    /\ MonitorUnchanged

MonitorAdvanceTime ==
    /\ advances < MaxAdvances
    /\ MonitorInputs < MaxMonitorCalls
    /\ \E d \in MonitorTimeSteps : now' = now + d
    /\ advances' = advances + 1
    /\ events' = <<>>
    /\ lastCall' = NoCall
    /\ UNCHANGED <<workerVars, hmVars, envCalls>>
    /\ UNCHANGED <<rateState, nextDailyReset, nextHourlyReset, rlObs, queueVars, runVars,
                   dispatched, recorded, registrations>>

MonitorRegisterWorker(workerId) ==
    /\ MonitorInputs < MaxMonitorCalls
    /\ ~RegHas(hmWorkers, workerId)
    /\ MonitorStore(HM_registerWorker([World EXCEPT !.objs[Alloc(objs)] = NewWorker(workerId, now)],
                                      workerId, Alloc(objs)))
    /\ envCalls' = envCalls + 1
    /\ lastCall' = NoCall
    /\ UNCHANGED <<now, advances>>

MonitorUnregisterWorker(workerId) ==
    /\ MonitorInputs < MaxMonitorCalls
    /\ RegHas(hmWorkers, workerId)
    /\ MonitorStore(HM_unregisterWorker(World, workerId))
    /\ envCalls' = envCalls + 1
    /\ lastCall' = NoCall
    /\ UNCHANGED <<now, advances>>

MonitorRecordTaskCompletion(workerId) ==
    /\ MonitorInputs < MaxMonitorCalls
    /\ RegHas(hmWorkers, workerId)
    /\ \E success \in BOOLEAN :
         MonitorStore(HM_recordTaskCompletion(World, now, workerId, success, MinExecutionMs))
    /\ envCalls' = envCalls + 1
    /\ lastCall' = NoCall
    /\ UNCHANGED <<now, advances>>

MonitorProcessHeartbeat(workerId) ==
    /\ MonitorInputs < MaxMonitorCalls
    /\ RegHas(hmWorkers, workerId)
    /\ MonitorStore(HM_processHeartbeat(World, now, workerId))
    /\ envCalls' = envCalls + 1
    /\ lastCall' = NoCall
    /\ UNCHANGED <<now, advances>>

MonitorAttemptWorkerRecovery(workerId) ==
    /\ MonitorInputs < MaxMonitorCalls
    /\ MonitorStore(HM_attemptWorkerRecovery(World, now, workerId))
    /\ envCalls' = envCalls + 1
    /\ lastCall' = MonitorCall("attemptWorkerRecovery", workerId, {})
    /\ UNCHANGED <<now, advances>>

\* the callback of monitoringInterval
MonitorCycle ==
    /\ MonitorStore(performMonitoringCycle(World, now))
    /\ lastCall' = MonitorCall("performMonitoringCycle", UndefKey, FirstUnhealthy)
    /\ UNCHANGED <<now, advances, envCalls>>

\* the recovery delay of attempt i is over
MonitorRecoveryTimerFires(i) ==
    /\ now >= recoveries[i].due
    /\ MonitorStore(resumeRecovery(World, now, i))
    /\ lastCall' = NoCall
    /\ UNCHANGED <<now, advances, envCalls>>

MonitorNext ==
    \/ MonitorAdvanceTime
    \/ \E workerId \in WorkerIds : MonitorRegisterWorker(workerId)
    \/ \E workerId \in WorkerIds : MonitorUnregisterWorker(workerId)
    \/ \E workerId \in WorkerIds : MonitorRecordTaskCompletion(workerId)
    \/ \E workerId \in WorkerIds : MonitorProcessHeartbeat(workerId)
    \/ \E workerId \in WorkerIds : MonitorAttemptWorkerRecovery(workerId)
    \/ MonitorCycle
    \/ \E i \in DOMAIN recoveries : MonitorRecoveryTimerFires(i)

MonitorSpec == MonitorInit /\ [][MonitorNext]_vars

\* the health monitor with its recoveries started by the monitoring cycle
\* alone (CycleSpec)
CycleNext ==
    \/ MonitorAdvanceTime
    \/ \E workerId \in WorkerIds : MonitorRegisterWorker(workerId)
    \/ \E workerId \in WorkerIds : MonitorUnregisterWorker(workerId)
    \/ \E workerId \in WorkerIds : MonitorRecordTaskCompletion(workerId)
    \/ \E workerId \in WorkerIds : MonitorProcessHeartbeat(workerId)
    \/ MonitorCycle
    \/ \E i \in DOMAIN recoveries : MonitorRecoveryTimerFires(i)

CycleSpec == MonitorInit /\ [][CycleNext]_vars

\* ------------------------------------------------------------------------
\* The choice of the worker (SelectSpec): the orchestrator after w1 was
\* registered and completed some tasks, after the task it held was possibly
\* timed out while w1 was unregistered, and after w2 was registered and some
\* more tasks were completed; then the tick loop goes on
\* ------------------------------------------------------------------------
SelectBatchSizes == 1..3

\* scheduleAccountCreation(batchSize)
ScheduleMore(S, t, batchSize) ==
    [S EXCEPT !.tasks = @ \o [i \in 1..batchSize |-> NewTask(t, Len(S.tasks) + 1)],
              !.pending = @ \o [i \in 1..batchSize |-> Len(S.tasks) + i]]

\* resetRateLimits() and the tick that follows it
TickAfterReset(S, t) ==
    processPendingTasks([S EXCEPT !.rate = resetLimits(@)], t, FALSE)

\* the time from a dispatch to the next one: the execution and the longest
\* delay the rate limiter asks for
RoundMs == MinExecutionMs + MaxDelaySec * 1000

\* the executor call started by the tick, if any, resolves at t
CompleteLast(S, S1, t) ==
    IF Len(S1.executions) = Len(S.executions) THEN S1
    ELSE completeTask([S1 EXCEPT !.executions = RemoveAt(@, Len(@))], t,
                      S1.executions[Len(S1.executions)].task,
                      S1.executions[Len(S1.executions)].worker, 1000)

\* a task is scheduled at t, dispatched by the next tick and completed
\* MinExecutionMs later
Round(S, t) ==
    CHOOSE S2 \in {CompleteLast(S, S1, t + MinExecutionMs) :
                      S1 \in {TickAfterReset(ScheduleMore(S, t, 1), t)}} : TRUE

\* a task is scheduled at t and dispatched, its worker is unregistered, and
\* monitorProgress finds the task too old
TimeoutOfUnregistered(S, t, workerId) ==
    CHOOSE S2 \in {monitorProgress(unregisterWorker(S1, workerId),
                                    t + TaskTimeoutMs + MinExecutionMs, 1000) :
                      S1 \in {TickAfterReset(ScheduleMore(S, t, 1), t)}} : TRUE

\* the orchestrators [S, t] (its state and the time) after one more round
AfterRound(X) == {[S |-> Round(x.S, x.t), t |-> x.t + RoundMs] : x \in X}

\* ... after up to two rounds
AfterRounds(X) == X \cup AfterRound(X) \cup AfterRound(AfterRound(X))

\* ... after the timeout of a task of w1, or without it
AfterTimeout(X) ==
    X \cup {[S |-> TimeoutOfUnregistered(x.S, x.t, "w1"),
              t |-> x.t + TaskTimeoutMs + RoundMs] : x \in X}

AfterRegistration(X, workerId) ==
    {[S |-> registerWorker(x.S, x.t, workerId), t |-> x.t] : x \in X}

\* ... after the heartbeats of both workers, a new batch and resetRateLimits()
AfterBatch(X) ==
    {[world |-> Collect([ScheduleMore(updateWorkerHeartbeat(
                                          updateWorkerHeartbeat(x.S, x.t, "w1"), x.t, "w2"),
                                      x.t, batchSize)
                            EXCEPT !.rate = resetLimits(@), !.events = <<>>]),
      now |-> x.t] : x \in X, batchSize \in SelectBatchSizes}

SelectStates ==
    AfterBatch(
        AfterRounds(
            AfterRegistration(
                AfterTimeout(
                    AfterRounds(
                        AfterRegistration({[S |-> InitialWorld, t |-> OrchStartTime]}, "w1"))),
                "w2")))

SelectInit ==
    /\ \E st \in SelectStates :
         /\ now = st.now
         /\ rateState = st.world.rate
         /\ tasks = st.world.tasks
         /\ pendingTasks = st.world.pending
         /\ inProgressTasks = st.world.inProgress
         /\ completedTasks = st.world.completed
         /\ failedTasks = st.world.failed
         /\ workers = st.world.workers
         /\ objs = st.world.objs
         /\ executions = st.world.executions
         /\ retryTimers = st.world.retryTimers
         /\ hmWorkers = st.world.hmWorkers
         /\ performanceHistory = st.world.performanceHistory
         /\ recoveryAttempts = st.world.recoveryAttempts
         /\ recoveries = st.world.recoveries
    /\ nextDailyReset = getNextDayReset(now)
    /\ nextHourlyReset = getNextHourReset(now)
    /\ isRunning = TRUE
    /\ isPaused = FALSE
    /\ pauseRequested = FALSE
    /\ taskProcessingInterval = TRUE
    /\ rlObs = InitialObs
    /\ events = <<>>
    /\ lastCall = NoCall
    /\ dispatched = 0
    /\ recorded = 0
    /\ registrations = 2
    /\ envCalls = 0
    /\ advances = 0

SelectNext ==
    \/ ProcessPendingTasks
    \/ \E i \in DOMAIN retryTimers : RetryTimerFires(i)
    \/ \E workerId \in WorkerIds : HandleWorkerFailure(workerId)

SelectSpec == SelectInit /\ [][SelectNext]_vars

\* ------------------------------------------------------------------------
\* Claims about the rate limiter
\* ------------------------------------------------------------------------

\* C6 as stated: once accountsCreatedToday has reached accountsPerDay, every
\* canCreateAccount call before the next daily reset (and without resetLimits)
\* is denied with the daily-limit reason.
C6_DailyReasonAlways ==
    (rlObs.chk.called /\ rlObs.chk.reachedDaily)
        => (~rlObs.chk.res.allowed /\ rlObs.chk.res.reason = ReasonDaily)

\* C6 amended: such a call is always denied; the reason is the daily-limit one
\* unless a cooldown is still active at the call, and then it is the cooldown one.
C6_DeniedAfterDailyLimit ==
    (rlObs.chk.called /\ rlObs.chk.reachedDaily)
        => /\ ~rlObs.chk.res.allowed
           /\ rlObs.chk.res.reason =
                 IF CooldownActive(rlObs.chk.pre, rlObs.chk.at) THEN ReasonCooldown ELSE ReasonDaily

C6_Witness ==
    /\ rlObs.chk.called
    /\ rlObs.chk.reachedDaily
    /\ rlObs.chk.res.reason = ReasonDaily
    /\ rlObs.chk.at > rlObs.chk.lastRecordAt

\* C7: whenever canCreateAccount returns allowed, the time elapsed since the
\* most recent recordAccountCreation is at least the currentDelay of that check.
C7_AllowedRespectsDelay ==
    (rlObs.chk.called /\ rlObs.chk.res.allowed /\ rlObs.chk.recordedBefore)
        => rlObs.chk.at - rlObs.chk.lastRecordAt >= rlObs.chk.pre.currentDelay

C7_Witness ==
    /\ rlObs.chk.called
    /\ rlObs.chk.res.allowed
    /\ rlObs.chk.recordedBefore
    /\ rlObs.chk.pre.currentDelay > MinDelaySec * 1000

\* C10 as stated: when a recordAccountCreation call leaves at least 10 samples
\* with a success rate below 0.3, a cooldown is started and the next
\* canCreateAccount call (no resetLimits or triggerCooldown call in between)
\* is denied with the cooldown reason.
C10_NextCallDenied ==
    /\ (rlObs.lastOp = "recordAccountCreation" /\ CooldownTriggerHolds(rateState))
          => rateState.isInCooldown
    /\ (rlObs.chk.called /\ rlObs.chk.cdPending)
          => (~rlObs.chk.res.allowed /\ rlObs.chk.res.reason = ReasonCooldown)

\* C10 amended: the cooldown started lasts cooldownPeriodMs, and the next
\* canCreateAccount call is denied with the cooldown reason when it is made
\* before that expiry with no resetLimits or triggerCooldown call in between.
C10_CooldownAfterLowSuccess ==
    /\ (rlObs.lastOp = "recordAccountCreation" /\ CooldownTriggerHolds(rateState))
          => (rateState.isInCooldown /\ rateState.cooldownUntil = now + CooldownPeriodMs)
    /\ (rlObs.chk.called /\ rlObs.chk.cdPending /\ rlObs.chk.at < rlObs.chk.cdUntil)
          => (~rlObs.chk.res.allowed /\ rlObs.chk.res.reason = ReasonCooldown)

C10_Witness ==
    /\ rlObs.chk.called
    /\ rlObs.chk.cdPending
    /\ rlObs.chk.at < rlObs.chk.cdUntil
    /\ rlObs.chk.at > rlObs.chk.lastRecordAt
    /\ rlObs.chk.res.reason = ReasonCooldown

\* ------------------------------------------------------------------------
\* Claims about the orchestrator (checked under Spec)
\* ------------------------------------------------------------------------
\* number of occurrences of x in the sequence s
Count(s, x) == Cardinality({i \in DOMAIN s : s[i] = x})

\* how often each of the four queues holds the task
Holders(task) ==
    <<Count(pendingTasks, task), Count(inProgressTasks, task),
      Count(completedTasks, task), Count(failedTasks, task)>>

HolderCount(task) ==
    Count(pendingTasks, task) + Count(inProgressTasks, task)
    + Count(completedTasks, task) + Count(failedTasks, task)

\* C1: conservation - every task ever scheduled is held in exactly one of
\* pending, inProgress, completed and failed, so the four sizes add up to the
\* number of tasks scheduled
C1_Conservation ==
    /\ \A task \in DOMAIN tasks : HolderCount(task) = 1
    /\ Len(pendingTasks) + Len(inProgressTasks) + Len(completedTasks) + Len(failedTasks)
       = Len(tasks)

\* C2: for every task, 0 <= attempts <= maxAttempts in every reachable state
C2_AttemptsWithinBounds ==
    \A task \in DOMAIN tasks :
        0 <= tasks[task].attempts /\ tasks[task].attempts <= tasks[task].maxAttempts

\* C3: a worker of the registry has status 'busy' if and only if its
\* currentTask is set
C3_BusyIffCurrentTask ==
    \A i \in DOMAIN workers :
        (objs[workers[i].obj].status = "busy") <=> (objs[workers[i].obj].currentTask # NoTask)

TerminalStatus == {"completed", "failed"}

\* the moves of the task state machine, a task keeping its status included
TaskMoves ==
    {<<"queued", "queued">>, <<"queued", "in-progress">>,
     <<"in-progress", "in-progress">>, <<"in-progress", "completed">>,
     <<"in-progress", "queued">>, <<"in-progress", "failed">>,
     <<"completed", "completed">>, <<"failed", "failed">>}

\* C4: from one step of the event loop to the next a task's status only moves
\* along queued -> in-progress -> (completed | queued | failed); a completed or
\* failed task changes neither status nor queue again
C4_TaskStateMachine ==
    [][\A task \in DOMAIN tasks :
          /\ <<tasks[task].status, tasks'[task].status>> \in TaskMoves
          /\ (tasks[task].status \in TerminalStatus => Holders(task)' = Holders(task))]_vars

\* C5: between two resets of the daily counter at most accountsPerDay tasks
\* are dispatched
C5_DailyLimitOnDispatch == dispatched <= AccountsPerDay

\* a task that waits to be dispatched: queued, in pending or on a retry timer
Waiting(task) ==
    /\ tasks[task].status = "queued"
    /\ \/ Contains(pendingTasks, task)
       \/ \E i \in DOMAIN retryTimers : retryTimers[i].task = task

\* no executor call has succeeded, a worker is registered, a task waits, no
\* worker of the registry is idle or has an executor call in flight, and the
\* recovery checks still to come are on workers with failures in their history
DeadEnd ==
    /\ completedTasks = <<>>
    /\ \A task \in DOMAIN tasks : tasks[task].status # "completed"
    /\ workers # <<>>
    /\ \E task \in DOMAIN tasks : Waiting(task)
    /\ executions = <<>>
    /\ \A i \in DOMAIN workers : objs[workers[i].obj].status \notin {"idle", "busy"}
    /\ \A i \in DOMAIN recoveries : performanceHistory[recoveries[i].workerId] # <<>>

\* the step just taken failed a worker whose health check found its heartbeat
\* current, and no handleWorkerFailure call came from outside
FailedWhileAlive ==
    /\ lastCall = NoCall
    /\ \E i, j \in DOMAIN events :
          /\ events[i].type = "workerUnhealthy"
          /\ "heartbeat" \notin events[i].issues
          /\ events[j].type = "workerFailed"
          /\ events[j].workerId = events[i].workerId

\* only a call of the public interface ends a dead end: the timers, the
\* executor and the clock leave it as it is
DeadEndIsFinal ==
    [][(DeadEnd /\ registrations' = registrations /\ envCalls' = envCalls) => DeadEnd']_vars

\* C8: with an executor that always fails and a registered worker, no task is
\* left queued for ever: the orchestrator never reaches, by failing a worker
\* whose heartbeat is current, a state in which a task waits and no worker can
\* take it any more
C8_NoTaskLeftQueued == ~(DeadEnd /\ FailedWhileAlive)

\* the workerFailed events of the step just taken
WorkerFailedEvents == SelectSeq(events, LAMBDA e : e.type = "workerFailed")

\* the effects of handleWorkerFailure(w) on the tasks ts that were in progress on w
Reassigned(w, ts) ==
    /\ \A i \in DOMAIN ts :
          /\ Contains(pendingTasks, ts[i])
          /\ tasks[ts[i]].status = "queued"
          /\ tasks[ts[i]].assignedWorker = UndefKey
    /\ \A i \in DOMAIN inProgressTasks : tasks[inProgressTasks[i]].assignedWorker # w
    /\ \E i \in DOMAIN WorkerFailedEvents :
          /\ WorkerFailedEvents[i].workerId = w
          /\ WorkerFailedEvents[i].n = Len(ts)
          /\ WorkerFailedEvents[i].status = "failed"
    /\ RegHas(workers, w)
    /\ objs[RegGet(workers, w)].status = "offline"

\* C9: when handleWorkerFailure(w), called while tasks are in progress on w,
\* returns, these tasks are queued in pending with no assigned worker, no
\* in-progress task references w, workerFailed carried their number, and w
\* went to 'failed' and then to 'offline'
C9_HandleWorkerFailure ==
    (lastCall.op = "handleWorkerFailure" /\ lastCall.tasks # <<>>)
        => Reassigned(lastCall.workerId, lastCall.tasks)

\* the same for a worker that is registered when the call is made
C9_RegisteredWorker ==
    (lastCall.op = "handleWorkerFailure" /\ lastCall.tasks # <<>>
     /\ RegHas(workers, lastCall.workerId))
        => Reassigned(lastCall.workerId, lastCall.tasks)

\* ------------------------------------------------------------------------
\* Claims about the health monitor (checked under MonitorSpec)
\* ------------------------------------------------------------------------
\* C11: for a worker whose metrics stay unhealthy, each monitoring cycle makes
\* one recovery attempt until recoveryAttempts attempts have been made, and
\* none once the cap is reached
C11_RecoveryEachCycle ==
    lastCall.op = "performMonitoringCycle"
        => \A w \in lastCall.due :
              recoveryAttempts[w] = IF lastCall.before[w] < RecoveryAttemptsCap
                                    THEN lastCall.before[w] + 1
                                    ELSE lastCall.before[w]

\* the events of the step just taken of the given type, about the worker
EventsAbout(type, w) == SelectSeq(events, LAMBDA e : e.type = type /\ e.workerId = w)

\* C12: the recovery counter of a worker never exceeds recoveryAttempts, and
\* attemptWorkerRecovery called with the counter at the cap returns false,
\* emits no workerRecoveryRequested and leaves the counter as it is
C12_RecoveryAttemptsCapped ==
    /\ \A w \in WorkerIds : recoveryAttempts[w] <= RecoveryAttemptsCap
    /\ (lastCall.op = "attemptWorkerRecovery"
        /\ lastCall.before[lastCall.workerId] >= RecoveryAttemptsCap)
          => /\ EventsAbout("maxRecoveryAttemptsReached", lastCall.workerId) # <<>>
             /\ EventsAbout("workerRecoveryRequested", lastCall.workerId) = <<>>
             /\ recoveryAttempts = lastCall.before

C12_Witness ==
    /\ lastCall.op = "attemptWorkerRecovery"
    /\ lastCall.before[lastCall.workerId] = RecoveryAttemptsCap
    /\ recoveryAttempts[lastCall.workerId] = RecoveryAttemptsCap

\* ------------------------------------------------------------------------
\* Claims about pausing, the tick and the dispatch (checked under Spec)
\* ------------------------------------------------------------------------
\* the step moves a task into the in-progress queue
Dispatched(task) ==
    /\ ~Contains(inProgressTasks, task) \/ tasks[task].status # "in-progress"
    /\ Contains(inProgressTasks', task) \/ tasks'[task].status = "in-progress"

\* the tasks dispatched by the step
DispatchedTasks == {task \in DOMAIN tasks : Dispatched(task)}

\* the executor calls in flight that may end now
EndingExecutions == {i \in DOMAIN executions : now - executions[i].startedAt >= MinExecutionMs}

\* C13: while the orchestrator is paused (after pauseOperations and before
\* resumeOperations) no task moves from pending to in-progress, and a task
\* scheduled during the pause is queued in pending
C13_PausedNoDispatch ==
    [][pauseRequested => /\ DispatchedTasks = {}
                         /\ \A task \in DOMAIN tasks' :
                               task \notin DOMAIN tasks
                                   => /\ tasks'[task].status = "queued"
                                      /\ Contains(pendingTasks', task)]_vars

\* paused with a task waiting, while the outcome of a task that was in
\* progress has just reached completeTask
C13_Witness ==
    /\ pauseRequested
    /\ pendingTasks # <<>>
    /\ \E i \in DOMAIN events : events[i].type = "taskCompleted"

\* once processing has been started, a stopped tick is never started again
TickStaysStopped ==
    [][(isRunning /\ ~taskProcessingInterval) => (isRunning' /\ ~taskProcessingInterval')]_vars

\* C14: resumeOperations after pauseOperations restarts task processing, also
\* when processing had been started before the pause: with processing
\* started and no pause in force, the periodic tick is running
C14_ResumeRestartsTick == (isRunning /\ ~pauseRequested) => taskProcessingInterval

\* the answer canCreateAccount gives to a tick that starts in this state
TickAllowed == canCreateAccount(rateState, now).res.allowed

\* C15: every move of a task from pending to in-progress is made by a tick
\* whose canCreateAccount call returned allowed, and a tick whose call is
\* denied changes no task, no queue and no worker
C15_DispatchOnlyWhenAllowed ==
    [][/\ DispatchedTasks # {} => (ProcessPendingTasks /\ TickAllowed)
       /\ (ProcessPendingTasks /\ ~TickAllowed) => UNCHANGED <<queueVars, workerVars>>]_vars

\* a task has been dispatched, and the tick is now denied while another task
\* waits and a worker is idle
C15_Witness ==
    /\ dispatched > 0
    /\ taskProcessingInterval
    /\ pendingTasks # <<>>
    /\ getAvailableWorkers(World) # <<>>
    /\ ~TickAllowed

\* C16: a single tick moves at most one task from pending to in-progress,
\* whatever the number of pending tasks, idle workers and free slots
C16_OneTaskPerTick ==
    [][ProcessPendingTasks
          => /\ Cardinality(DispatchedTasks) <= 1
             /\ Len(inProgressTasks') <= Len(inProgressTasks) + 1
             /\ Len(pendingTasks') >= Len(pendingTasks) - 1]_vars

\* a task is in progress while another one, scheduled before that dispatch,
\* still waits and a worker registered before it is still idle
C16_Witness ==
    \E i \in DOMAIN executions, j \in DOMAIN pendingTasks, k \in DOMAIN workers :
        /\ tasks[executions[i].task].status = "in-progress"
        /\ tasks[pendingTasks[j]].attempts = 0
        /\ tasks[pendingTasks[j]].scheduledAt <= executions[i].startedAt
        /\ objs[workers[k].obj].status = "idle"
        /\ objs[workers[k].obj].tasksCompleted = 0
        /\ objs[workers[k].obj].lastHeartbeat <= executions[i].startedAt
        /\ completedTasks = <<>> /\ failedTasks = <<>> /\ retryTimers = <<>>
        /\ dispatched = 1

\* C17: dispatch starts are paced by the rate limiter's delay: two tasks are
\* never moved to in-progress less than currentDelay apart, also when the
\* outcome of the first has not been recorded yet
C17_DispatchesPaced ==
    \A i, j \in DOMAIN executions :
        (/\ i < j
         /\ executions[i].task # executions[j].task
         /\ rateState.lastAccountCreation < executions[i].startedAt)
            => executions[j].startedAt - executions[i].startedAt >= rateState.currentDelay

\* C18: each worker is assigned at most one in-progress task: no two
\* in-progress tasks have the same assignedWorker, and the currentTask of a
\* busy worker is the one in-progress task assigned to it
C18_OneTaskPerWorker ==
    /\ \A i, j \in DOMAIN inProgressTasks :
          i # j => tasks[inProgressTasks[i]].assignedWorker # tasks[inProgressTasks[j]].assignedWorker
    /\ \A k \in DOMAIN workers :
          objs[workers[k].obj].status = "busy"
              => /\ Contains(inProgressTasks, objs[workers[k].obj].currentTask)
                 /\ tasks[objs[workers[k].obj].currentTask].assignedWorker = workers[k].key

\* ------------------------------------------------------------------------
\* Claims about scheduling a batch

\* what scheduleAccountCreation(n) returned, when it is the step just taken
ReturnedIds == lastCall'.tasks

\* C19: scheduleAccountCreation(n), for every n >= 0, appends exactly n new
\* tasks to the back of the pending queue, each queued with attempts 0,
\* maxAttempts = config.maxRetryAttempts, one batchId for all and an id no
\* other task has; it returns those n ids in order, raises queuedTasks of
\* getSystemStatus by n and leaves every task that existed before unchanged.
C19_ScheduleAppends ==
    [][\A n \in BatchSizes :
          ScheduleAccountCreation(n) =>
              /\ Len(ReturnedIds) = n
              /\ pendingTasks' = pendingTasks \o ReturnedIds
              /\ \A i \in 1..n :
                    /\ ReturnedIds[i] \in DOMAIN tasks' \ DOMAIN tasks
                    /\ \A j \in 1..n : i # j => ReturnedIds[i] # ReturnedIds[j]
                    /\ tasks'[ReturnedIds[i]].status = "queued"
                    /\ tasks'[ReturnedIds[i]].attempts = 0
                    /\ tasks'[ReturnedIds[i]].maxAttempts = MaxRetryAttempts
                    /\ tasks'[ReturnedIds[i]].batchId = tasks'[ReturnedIds[1]].batchId
                    /\ \A old \in DOMAIN tasks :
                          tasks[old].batchId # tasks'[ReturnedIds[i]].batchId
              /\ Len(tasks') = Len(tasks) + n
              /\ getSystemStatus(World)'.queuedTasks = getSystemStatus(World).queuedTasks + n
              /\ \A old \in DOMAIN tasks : tasks'[old] = tasks[old]
              /\ inProgressTasks' = inProgressTasks
              /\ completedTasks' = completedTasks
              /\ failedTasks' = failedTasks]_vars

\* a batch was scheduled and returned its ids while an earlier task was in
\* progress
C19_Witness ==
    /\ lastCall.op = "scheduleAccountCreation"
    /\ lastCall.tasks # <<>>
    /\ Len(tasks) > Len(lastCall.tasks)
    /\ inProgressTasks # <<>>

\* an empty batch was scheduled: nothing is returned and a queue is not empty
C19_EmptyBatch ==
    /\ lastCall.op = "scheduleAccountCreation"
    /\ lastCall.tasks = <<>>
    /\ pendingTasks # <<>>

\* ------------------------------------------------------------------------
\* Claims about resetLimits

\* C20: resetLimits sets accountsCreatedToday and accountsCreatedThisHour to
\* 0, clears the cooldown and the window of recent attempts, and sets
\* successRate to 1.0 and currentDelay to the minimum delay; a second
\* resetLimits right after it leaves the state as the first one left it.
C20_ResetLimitsIdempotent ==
    lastCall.op = "resetLimits"
        => /\ rateState.accountsCreatedToday = 0
           /\ rateState.accountsCreatedThisHour = 0
           /\ ~rateState.isInCooldown
           /\ rateState.cooldownUntil = Undef
           /\ rateState.recentAttempts = <<>>
           /\ rateState.successRate = Ratio(1, 1)
           /\ rateState.currentDelay = MinDelaySec * 1000
           /\ resetLimits(rateState) = rateState
           /\ resetLimits(resetLimits(lastCall.before)) = resetLimits(lastCall.before)

\* resetLimits was called in a cooldown, with counted accounts, recorded
\* attempts, a success rate below 1.0 and a raised delay
C20_Witness ==
    /\ lastCall.op = "resetLimits"
    /\ lastCall.before.accountsCreatedToday > 0
    /\ lastCall.before.accountsCreatedThisHour > 0
    /\ lastCall.before.isInCooldown
    /\ lastCall.before.recentAttempts # <<>>
    /\ lastCall.before.successRate # Ratio(1, 1)
    /\ lastCall.before.currentDelay > MinDelaySec * 1000

\* ------------------------------------------------------------------------
\* Claims about the cooldown and the order of the rules

\* the cooldown of state st with its flag and its expiry cleared
CooldownCleared(st) == [st EXCEPT !.isInCooldown = FALSE, !.cooldownUntil = Undef]

\* C21: after triggerCooldown(d) the limiter is in cooldown; every
\* canCreateAccount call made before cooldownUntil is denied with the cooldown
\* reason and a wait time equal to the remaining cooldown, and leaves the
\* cooldown as it is; the first call at or after cooldownUntil clears the
\* cooldown and is decided by the other rules.
C21_CooldownUntilExpiry ==
    /\ lastCall.op = "triggerCooldown"
          => /\ rateState.isInCooldown
             /\ rateState.cooldownUntil # Undef
             /\ lastCall.durationMs > 0 => rateState.cooldownUntil = now + lastCall.durationMs
    /\ (rlObs.chk.called /\ rlObs.chk.pre.isInCooldown)
          => IF rlObs.chk.at < rlObs.chk.pre.cooldownUntil
             THEN /\ rlObs.chk.res =
                        Denied(ReasonCooldown, rlObs.chk.pre.cooldownUntil - rlObs.chk.at,
                               rlObs.chk.pre.cooldownUntil)
                  /\ rateState = rlObs.chk.pre
             ELSE /\ rateState = CooldownCleared(rlObs.chk.pre)
                  /\ rlObs.chk.res.reason # ReasonCooldown
                  /\ rlObs.chk.res = canCreateAccount(CooldownCleared(rlObs.chk.pre), rlObs.chk.at).res

\* a call made right after triggerCooldown(ManualCooldownMs), before the
\* expiry, was denied with the cooldown reason
C21_Witness ==
    /\ rlObs.chk.called
    /\ rlObs.chk.pre.isInCooldown
    /\ rlObs.chk.pre.cooldownUntil = rlObs.chk.at + ManualCooldownMs
    /\ rlObs.chk.res.reason = ReasonCooldown

\* a call made exactly at the expiry of a cooldown
C21_AtExpiry ==
    /\ rlObs.chk.called
    /\ rlObs.chk.pre.isInCooldown
    /\ rlObs.chk.pre.cooldownUntil = rlObs.chk.at

\* a call made after the expiry of a cooldown was denied by another rule
C21_AfterExpiry ==
    /\ rlObs.chk.called
    /\ rlObs.chk.pre.isInCooldown
    /\ rlObs.chk.pre.cooldownUntil < rlObs.chk.at
    /\ ~rlObs.chk.res.allowed

\* ------------------------------------------------------------------------
\* Claims about the registry of workers

\* the keys of the registry
RegKeys(reg) == {reg[i].key : i \in DOMAIN reg}

\* the workers of the registry that are idle or busy
ActiveKeys(reg, heap) == {k \in RegKeys(reg) : heap[RegGet(reg, k)].status \in {"idle", "busy"}}

\* C22: registerWorker(id) adds a worker that is idle with zero counters and
\* that getSystemStatus counts in activeWorkers; unregisterWorker(id) removes
\* it, so that it is no longer counted; activeWorkers is always the number of
\* registered workers that are idle or busy: a worker is in the registry from
\* its registerWorker call to its unregisterWorker call and at no other time.
C22_ActiveWorkersAreRegistered ==
    [][/\ \A id \in WorkerIds :
             RegisterWorker(id)
                 => /\ RegHas(workers', id)
                    /\ objs'[RegGet(workers', id)].status = "idle"
                    /\ objs'[RegGet(workers', id)].tasksCompleted = 0
                    /\ objs'[RegGet(workers', id)].tasksSuccessful = 0
                    /\ objs'[RegGet(workers', id)].tasksFailed = 0
                    /\ id \in ActiveKeys(workers', objs')
       /\ \A id \in WorkerIds :
             UnregisterWorker(id)
                 => /\ ~RegHas(workers', id)
                    /\ ActiveKeys(workers', objs') = ActiveKeys(workers, objs) \ {id}
       /\ getSystemStatus(World)'.activeWorkers = Cardinality(ActiveKeys(workers', objs'))
       /\ \A k \in RegKeys(workers') \ RegKeys(workers) : k \in WorkerIds /\ RegisterWorker(k)
       /\ \A k \in RegKeys(workers) \ RegKeys(workers') : k \in WorkerIds /\ UnregisterWorker(k)]_vars

\* ------------------------------------------------------------------------
\* Claims about executor failures and late outcomes

\* queue q without task
Others(q, task) == SelectSeq(q, LAMBDA x : x # task)

\* C23: an executor failure on one task becomes failTask for that task only:
\* the status, the attempts and the queue membership of every other task stay
\* as they are, and the tick stays set, so that other pending tasks can be
\* dispatched afterwards.
C23_ExecutorFailureContained ==
    [][\A i \in DOMAIN executions :
          ExecutorRejects(i) =>
              /\ tasks'[executions[i].task].attempts = tasks[executions[i].task].attempts + 1
              /\ \A other \in DOMAIN tasks \ {executions[i].task} :
                    /\ tasks'[other].status = tasks[other].status
                    /\ tasks'[other].attempts = tasks[other].attempts
              /\ Others(pendingTasks', executions[i].task) = Others(pendingTasks, executions[i].task)
              /\ Others(inProgressTasks', executions[i].task) = Others(inProgressTasks, executions[i].task)
              /\ Others(completedTasks', executions[i].task) = Others(completedTasks, executions[i].task)
              /\ Others(failedTasks', executions[i].task) = Others(failedTasks, executions[i].task)
              /\ taskProcessingInterval' = taskProcessingInterval
              /\ isPaused' = isPaused]_vars

\* the executor failed on task 1 while task 2 was in progress, and the tick is
\* still set
C23_Witness ==
    /\ Len(tasks) = 2
    /\ tasks[1].errorMessage = "Simulated task failure"
    /\ tasks[1].attempts = 1
    /\ tasks[2].status = "in-progress"
    /\ tasks[2].attempts = 0
    /\ Contains(inProgressTasks, 2)
    /\ taskProcessingInterval

\* the executor failed on task 1 and task 2 was dispatched after that, on the
\* only worker there is
C23_DispatchedAfterwards ==
    /\ C23_Witness
    /\ registrations = 1

\* the last thing that happened to the task was a timeout found by
\* monitorProgress, and the task has not been dispatched again since
TimedOut(task) ==
    /\ tasks[task].errorMessage = "Task timeout"
    /\ tasks[task].status # "in-progress"

\* status and counters of the worker registered under key k
WorkerCounters(reg, heap, k) ==
    [status |-> heap[RegGet(reg, k)].status,
     tasksCompleted |-> heap[RegGet(reg, k)].tasksCompleted,
     tasksSuccessful |-> heap[RegGet(reg, k)].tasksSuccessful,
     tasksFailed |-> heap[RegGet(reg, k)].tasksFailed]

\* C24: when the executor call of a task that monitorProgress has timed out
\* resolves or rejects at last, nothing changes: the task keeps its status,
\* its attempts and its place in the queues, every worker keeps its status
\* and its counters, and the task is not completed or failed a second time.
C24_LateOutcomeIgnored ==
    [][\A i \in DOMAIN executions :
          ((ExecutorResolves(i) \/ ExecutorRejects(i)) /\ TimedOut(executions[i].task))
              => /\ tasks' = tasks
                 /\ pendingTasks' = pendingTasks
                 /\ inProgressTasks' = inProgressTasks
                 /\ completedTasks' = completedTasks
                 /\ failedTasks' = failedTasks
                 /\ retryTimers' = retryTimers
                 /\ RegKeys(workers') = RegKeys(workers)
                 /\ \A k \in RegKeys(workers) :
                       WorkerCounters(workers', objs', k) = WorkerCounters(workers, objs, k)]_vars

\* ------------------------------------------------------------------------
\* Claims about retries, timeouts and the order of the pending queue

\* C25: a task that failed with attempts < maxAttempts, through an executor
\* failure or through a timeout found by monitorProgress, is not in the
\* pending queue as long as its retry delay, max(retryDelayMs, time until the
\* rate limiter's next slot) from the handling of the failure, has not elapsed.
C25_RetryPaced ==
    \A i \in DOMAIN retryTimers :
        now < retryTimers[i].due => ~Contains(pendingTasks, retryTimers[i].task)

\* the same for the runs in which monitorProgress has timed out no task
C25_RetryPacedWithoutTimeout ==
    (\A task \in DOMAIN tasks : tasks[task].errorMessage # "Task timeout") => C25_RetryPaced

\* the time of the latest dispatch of a task whose executor call is in flight
LatestDispatch(task) ==
    LET starts == {executions[i].startedAt : i \in {j \in DOMAIN executions : executions[j].task = task}}
    IN IF starts = {} THEN Undef ELSE CHOOSE t \in starts : \A u \in starts : u <= t

\* C26: scheduledAt is reset at every dispatch, and monitorProgress times a
\* task out only when more than taskTimeoutMs have passed since its latest
\* dispatch, whatever time it spent in the pending queue before.
C26_TimeoutSinceDispatch ==
    [][/\ ProcessPendingTasks
            => \A task \in DOMAIN tasks :
                   (tasks[task].status = "queued" /\ tasks'[task].status = "in-progress")
                       => tasks'[task].scheduledAt = now
       /\ MonitorProgress
            => \A task \in DOMAIN tasks :
                   (tasks[task].status = "in-progress" /\ tasks'[task].errorMessage = "Task timeout"
                      /\ tasks'[task].attempts = tasks[task].attempts + 1)
                       => /\ LatestDispatch(task) # Undef
                          /\ now - LatestDispatch(task) > TaskTimeoutMs]_vars

\* the part of C26 about monitorProgress alone
C26_NoTimeoutForWaiting ==
    [][MonitorProgress
            => \A task \in DOMAIN tasks :
                   (tasks[task].status = "in-progress" /\ tasks'[task].errorMessage = "Task timeout"
                      /\ tasks'[task].attempts = tasks[task].attempts + 1)
                       => /\ LatestDispatch(task) # Undef
                          /\ now - LatestDispatch(task) > TaskTimeoutMs]_vars

\* the tasks ts were put in front of the pending queue q, giving q2
PutInFront(q2, ts, q) ==
    /\ Len(q2) = Len(ts) + Len(q)
    /\ SubSeq(q2, Len(ts) + 1, Len(q2)) = q
    /\ {q2[i] : i \in 1..Len(ts)} = {ts[i] : i \in DOMAIN ts}

\* C27: a retried task and a task reassigned from a failed worker (one that is
\* registered when it fails) are both put at the front of the pending queue,
\* ahead of the tasks that are still pending, and so are dispatched before them.
C27_RequeuedAtFront ==
    [][/\ \A i \in DOMAIN retryTimers :
             RetryTimerFires(i) => PutInFront(pendingTasks', <<retryTimers[i].task>>, pendingTasks)
       /\ \A workerId \in WorkerIds :
             (HandleWorkerFailure(workerId) /\ RegHas(workers, workerId))
                 => PutInFront(pendingTasks', lastCall'.tasks, pendingTasks)]_vars

\* the part of C27 about tasks reassigned from a failed worker
C27_ReassignedAtFront ==
    [][\A workerId \in WorkerIds :
          (HandleWorkerFailure(workerId) /\ RegHas(workers, workerId))
                 => PutInFront(pendingTasks', lastCall'.tasks, pendingTasks)]_vars

\* a task was reassigned from a failed worker in front of a pending task
C27_ReassignedWitness ==
    /\ lastCall.op = "handleWorkerFailure"
    /\ lastCall.tasks # <<>>
    /\ Len(pendingTasks) = 2
    /\ pendingTasks[1] = lastCall.tasks[1]

\* ------------------------------------------------------------------------
\* Claims about failed workers and about progress

\* the status of the worker registered under key k, or "" when there is none
RegStatus(reg, heap, k) == IF RegHas(reg, k) THEN heap[RegGet(reg, k)].status ELSE ""

\* C28: a worker that handleWorkerFailure has marked failed and then offline
\* does not become idle again, and so gets no task, unless the health monitor
\* reports it recovered or it is registered again: failTask, completeTask and
\* the timeout path leave it offline.
C28_OfflineUntilRecovered ==
    [][\A k \in WorkerIds :
          /\ (RegStatus(workers, objs, k) = "offline" /\ RegStatus(workers', objs', k) \in {"idle", "busy"})
                => (RegisterWorker(k) \/ \E i \in DOMAIN recoveries : RecoveryTimerFires(i))
          /\ ((\E j \in DOMAIN events' : events'[j].type = "workerFailed" /\ events'[j].workerId = k)
                 /\ RegHas(workers', k))
                => RegStatus(workers', objs', k) = "offline"]_vars

\* the first half alone: a worker that is offline between two steps
C28_NoLateRelease ==
    [][\A k \in WorkerIds :
          (RegStatus(workers, objs, k) = "offline" /\ RegStatus(workers', objs', k) \in {"idle", "busy"})
              => (RegisterWorker(k) \/ \E i \in DOMAIN recoveries : RecoveryTimerFires(i))]_vars

\* one worker was registered and one batch scheduled, and nothing else was
\* asked of the orchestrator: no worker was unregistered or reported failed,
\* and the orchestrator was never paused
OnlyRegisteredAndScheduled ==
    /\ registrations = 1
    /\ envCalls = 1
    /\ Len(workers) = 1
    /\ ~isPaused
    /\ taskProcessingInterval

\* every registered worker has sent its heartbeat within the health check timeout
HeartbeatsCurrent ==
    \A i \in DOMAIN workers : now - objs[workers[i].obj].lastHeartbeat <= HealthCheckTimeoutMs

\* a heartbeat of a registered worker does not end a dead end either
DeadEndSurvivesHeartbeats ==
    [][\A workerId \in WorkerIds : (DeadEnd /\ UpdateWorkerHeartbeat(workerId)) => DeadEnd']_vars

\* C29: if a worker stays registered, the orchestrator is not paused for
\* ever, every executor call returns and the counters of the rate limiter are
\* reset at their boundaries, every scheduled task ends completed or failed:
\* the orchestrator never reaches a state in which every executor call has
\* returned, a task still waits, and no timer, executor outcome or clock step
\* can make a worker take it (DeadEnd, which DeadEndIsFinal shows to be final).
C29_EveryTaskFinishes == ~(DeadEnd /\ OnlyRegisteredAndScheduled /\ HeartbeatsCurrent)

\* ------------------------------------------------------------------------
\* Claims about the order of the rules of canCreateAccount

\* the five denial conditions on the state st at time t
CooldownHolds(st, t) == st.isInCooldown /\ st.cooldownUntil # Undef /\ st.cooldownUntil > t
DailyHolds(st) == st.accountsCreatedToday >= AccountsPerDay
HourlyHolds(st) == st.accountsCreatedThisHour >= AccountsPerHour
DelayHolds(st, t) == t - st.lastAccountCreation < st.currentDelay
BurstHolds(st, t) ==
    BurstLimitReached(Cardinality({i \in DOMAIN st.recentAttempts :
                                       st.recentAttempts[i].timestamp > t - BurstWindowMs}))

\* C30: canCreateAccount decides by the first rule that matches, in the order
\* cooldown, daily limit, hourly limit, minimum delay, burst limit: the reason
\* and the wait time it reports are those of the earliest rule whose condition
\* holds, and it allows the call only when none of the five holds.
C30_FirstRuleWins ==
    rlObs.chk.called =>
        LET st == rlObs.chk.pre
            t == rlObs.chk.at
            res == rlObs.chk.res
        IN /\ res.allowed <=> ~(\/ CooldownHolds(st, t) \/ DailyHolds(st) \/ HourlyHolds(st)
                                 \/ DelayHolds(st, t) \/ BurstHolds(st, t))
           /\ ~res.allowed =>
                 IF CooldownHolds(st, t)
                 THEN res.reason = ReasonCooldown /\ res.waitTimeMs = st.cooldownUntil - t
                 ELSE IF DailyHolds(st)
                 THEN res.reason = ReasonDaily /\ res.waitTimeMs = DayMs - (t % DayMs)
                 ELSE IF HourlyHolds(st)
                 THEN res.reason = ReasonHourly /\ res.waitTimeMs = HourMs - (t % HourMs)
                 ELSE IF DelayHolds(st, t)
                 THEN /\ res.reason = ReasonDelay
                      /\ res.waitTimeMs = st.currentDelay - (t - st.lastAccountCreation)
                 ELSE res.reason = ReasonBurst /\ res.waitTimeMs = BurstWindowMs

\* the daily limit decided a call at which the hourly limit, the minimum
\* delay and the burst limit were reached as well
C30_Witness ==
    /\ rlObs.chk.called
    /\ ~CooldownHolds(rlObs.chk.pre, rlObs.chk.at)
    /\ DailyHolds(rlObs.chk.pre)
    /\ HourlyHolds(rlObs.chk.pre)
    /\ DelayHolds(rlObs.chk.pre, rlObs.chk.at)
    /\ BurstHolds(rlObs.chk.pre, rlObs.chk.at)
    /\ rlObs.chk.res.reason = ReasonDaily

\* each of the other rules decided a call, and a call was allowed
C30_CooldownAboveAll ==
    /\ rlObs.chk.called /\ rlObs.chk.res.reason = ReasonCooldown
    /\ DailyHolds(rlObs.chk.pre) /\ HourlyHolds(rlObs.chk.pre)
    /\ DelayHolds(rlObs.chk.pre, rlObs.chk.at) /\ BurstHolds(rlObs.chk.pre, rlObs.chk.at)
C30_HourlyDecides ==
    /\ rlObs.chk.called /\ rlObs.chk.res.reason = ReasonHourly
    /\ DelayHolds(rlObs.chk.pre, rlObs.chk.at) /\ BurstHolds(rlObs.chk.pre, rlObs.chk.at)
C30_DelayDecides ==
    /\ rlObs.chk.called /\ rlObs.chk.res.reason = ReasonDelay
    /\ BurstHolds(rlObs.chk.pre, rlObs.chk.at)
C30_BurstDecides == rlObs.chk.called /\ rlObs.chk.res.reason = ReasonBurst
C30_AllowedAfterRecords == rlObs.chk.called /\ rlObs.chk.res.allowed /\ rlObs.chk.recordedBefore

\* ------------------------------------------------------------------------
\* Claims about the fields of tasks and workers

\* C31: in every reachable state a task has an assignedWorker only while its
\* status is 'in-progress': queued, completed and failed tasks have none.
C31_AssignedOnlyInProgress ==
    \A task \in DOMAIN tasks :
        tasks[task].assignedWorker # UndefKey => tasks[task].status = "in-progress"

\* the same for the tasks that are not completed
C31_AssignedOnlyInProgressUnlessCompleted ==
    \A task \in DOMAIN tasks :
        (tasks[task].assignedWorker # UndefKey /\ tasks[task].status # "completed")
            => tasks[task].status = "in-progress"

\* the WorkerStatus registered under key k
RegWorker(reg, heap, k) == heap[RegGet(reg, k)]

\* C32: in every reachable state every worker has tasksCompleted =
\* tasksSuccessful + tasksFailed; none of the three counters of a worker ever
\* decreases; a task that finishes on a worker adds exactly one to its
\* tasksCompleted and to exactly one of the other two.
C32_WorkerCounters ==
    [][/\ \A k \in WorkerIds :
             RegHas(workers', k)
                 => RegWorker(workers', objs', k).tasksCompleted =
                        RegWorker(workers', objs', k).tasksSuccessful
                            + RegWorker(workers', objs', k).tasksFailed
       /\ \A k \in WorkerIds :
             (RegHas(workers, k) /\ RegHas(workers', k) /\ ~RegisterWorker(k))
                 => /\ RegWorker(workers', objs', k).tasksCompleted >= RegWorker(workers, objs, k).tasksCompleted
                    /\ RegWorker(workers', objs', k).tasksSuccessful >= RegWorker(workers, objs, k).tasksSuccessful
                    /\ RegWorker(workers', objs', k).tasksFailed >= RegWorker(workers, objs, k).tasksFailed
       /\ \A i \in DOMAIN executions :
             ((ExecutorResolves(i) \/ ExecutorRejects(i))
                 /\ RegGet(workers, objs[executions[i].worker].id) = executions[i].worker
                 /\ RegHas(workers', objs[executions[i].worker].id))
                 => RegWorker(workers', objs', objs[executions[i].worker].id).tasksCompleted =
                        objs[executions[i].worker].tasksCompleted + 1]_vars

\* the first part alone: the sum in every state
C32_CountersAddUp ==
    \A k \in WorkerIds :
        RegHas(workers, k)
            => RegWorker(workers, objs, k).tasksCompleted =
                   RegWorker(workers, objs, k).tasksSuccessful + RegWorker(workers, objs, k).tasksFailed

\* the tasks of taskQueue.inProgress that name worker k
HeldBy(k) ==
    {inProgressTasks[i] : i \in DOMAIN inProgressTasks} \cap
        {task \in DOMAIN tasks : tasks[task].assignedWorker = k}

\* C33: whenever a worker is unregistered no task is in progress with that
\* worker as its assignedWorker, and no in-progress task ever names a worker
\* that is absent from the registry.
C33_NoTaskOnAbsentWorker ==
    [][/\ \A k \in WorkerIds : UnregisterWorker(k) => HeldBy(k)' = {}
       /\ \A k \in WorkerIds : HeldBy(k)' # {} => RegHas(workers', k)]_vars

\* the second part alone: in-progress tasks name registered workers
C33_InProgressOnRegistered ==
    \A k \in WorkerIds : HeldBy(k) # {} => RegHas(workers, k)

\* C34: the registry holds only workers that registerWorker added and
\* unregisterWorker has not removed since, each under its own id; handling a
\* failure or a timeout never adds an entry.
C34_RegistryOnlyRegistered ==
    [][/\ \A i \in DOMAIN workers' :
             /\ workers'[i].key \in WorkerIds
             /\ objs'[workers'[i].obj].id = workers'[i].key
       /\ \A i \in DOMAIN workers' :
             RegHas(workers, workers'[i].key) \/ RegisterWorker(workers'[i].key)
       /\ (MonitorProgress \/ \E workerId \in WorkerIds : HandleWorkerFailure(workerId))
             => RegKeys(workers') \subseteq RegKeys(workers)]_vars

\* the last part alone: monitorProgress adds no entry
C34_TimeoutAddsNoEntry ==
    [][MonitorProgress => RegKeys(workers') \subseteq RegKeys(workers)]_vars

\* the keys of the registry apart from the one of the object without an id
C34_EntriesAreRegistered ==
    [][\A k \in WorkerIds :
          RegHas(workers', k) => (RegHas(workers, k) \/ RegisterWorker(k))]_vars

\* ------------------------------------------------------------------------
\* Claims about the tick loop

\* C35: the number of tasks in progress never exceeds config.maxConcurrentTasks
\* in a state reached through the tick loop, whatever the number of idle
\* workers and of pending tasks.
C35_InProgressWithinCap ==
    Len(inProgressTasks) <= MaxConcurrentTasks

\* one more tick has filled the cap, and a pending task, an idle worker and
\* the rate limiter's permission are there for one more
C35_Witness ==
    /\ dispatched > 0
    /\ Len(inProgressTasks) = MaxConcurrentTasks
    /\ pendingTasks # <<>>
    /\ Len(getAvailableWorkers(World)) > 0
    /\ canCreateAccount(rateState, now).res.allowed

\* ------------------------------------------------------------------------
\* Claims about the rate limiter's records

DelayWithinBounds(st) ==
    /\ st.currentDelay >= MinDelaySec * 1000
    /\ st.currentDelay <= MaxDelaySec * 1000

\* C36: every recordAccountCreation call, for a success or a failure, adds
\* exactly 1 to accountsCreatedToday and to accountsCreatedThisHour and sets
\* lastAccountCreation to the current time; after it, and in every reachable
\* state, currentDelay lies within [minDelay, maxDelay], whatever the jitter.
C36_RecordCountsAndDelay ==
    /\ DelayWithinBounds(rateState)
    /\ [][/\ CallRecordAccountCreation
               => /\ rateState'.accountsCreatedToday = rateState.accountsCreatedToday + 1
                  /\ rateState'.accountsCreatedThisHour = rateState.accountsCreatedThisHour + 1
                  /\ rateState'.lastAccountCreation = now
          /\ DelayWithinBounds(rateState')]_vars

\* a failure was recorded and the jitter took the delay to the upper bound
C36_Witness ==
    /\ rlObs.lastOp = "recordAccountCreation"
    /\ rateState.lastAccountCreation = now
    /\ rateState.accountsCreatedToday > 0
    /\ rateState.currentDelay = MaxDelaySec * 1000
    /\ \E i \in DOMAIN rateState.recentAttempts : ~rateState.recentAttempts[i].success

\* ------------------------------------------------------------------------
\* Claims about the health monitor's metrics and recoveries

\* a recovery attempt of the worker is waiting for its delay
RecoveryInFlight(w) == \E i \in DOMAIN recoveries : recoveries[i].workerId = w

\* the status the metrics should carry for a score of num / den
StatusFor(score, inFlight) ==
    IF score.num >= 80 * score.den THEN "healthy"
    ELSE IF score.num >= 60 * score.den THEN "degraded"
    ELSE IF inFlight THEN "recovering"
    ELSE "unhealthy"

\* C37: calculatePerformanceMetrics returns a healthScore within [0, 100] and
\* the status 'healthy' iff the score is at least 80, 'degraded' iff it is at
\* least 60 and below 80, 'recovering' iff it is below 60 and a recovery of
\* the worker is in flight, 'unhealthy' otherwise.
C37_MetricsStatus ==
    \A w \in WorkerIds :
        RegHas(hmWorkers, w)
            => LET metrics == calculatePerformanceMetrics(World, now, w)
               IN /\ metrics.healthScore.num >= 0
                  /\ metrics.healthScore.num <= 100 * metrics.healthScore.den
                  /\ metrics.status = StatusFor(metrics.healthScore, RecoveryInFlight(w))

\* the same without the requirement on 'recovering' and 'unhealthy'
C37_ScoreAndUpperStatuses ==
    \A w \in WorkerIds :
        RegHas(hmWorkers, w)
            => LET metrics == calculatePerformanceMetrics(World, now, w)
               IN /\ metrics.healthScore.num >= 0
                  /\ metrics.healthScore.num <= 100 * metrics.healthScore.den
                  /\ metrics.healthScore.num >= 80 * metrics.healthScore.den
                        <=> metrics.status = "healthy"
                  /\ (/\ metrics.healthScore.num >= 60 * metrics.healthScore.den
                      /\ metrics.healthScore.num < 80 * metrics.healthScore.den)
                        <=> metrics.status = "degraded"

\* C37, its last part: a worker whose score is below 60, as after 10 failures
\* in a row, and that has no recovery in flight is 'unhealthy'
C37_UnhealthyWithoutRecovery ==
    \A w \in WorkerIds :
        (/\ RegHas(hmWorkers, w)
         /\ ~RecoveryInFlight(w)
         /\ calculatePerformanceMetrics(World, now, w).healthScore.num
                < 60 * calculatePerformanceMetrics(World, now, w).healthScore.den)
            => calculatePerformanceMetrics(World, now, w).status = "unhealthy"

\* the monitor when the delay of recovery i is over, and what the attempt
\* emits about its outcome then
AfterDelay(i) == [World EXCEPT !.recoveries = SubSeq(@, 1, i - 1) \o SubSeq(@, i + 1, Len(@))]

Outcome(i) ==
    SelectSeq(finishRecovery(AfterDelay(i), now, recoveries[i]).events,
              LAMBDA e : /\ e.type \in {"workerRecovered", "workerRecoveryFailed"}
                         /\ e.workerId = recoveries[i].workerId)

\* the outcome is settled by the health check made after the delay
OutcomeSettled(i) ==
    /\ Len(Outcome(i)) = 1
    /\ Outcome(i)[1].type = "workerRecovered"
          <=> /\ RegHas(hmWorkers, recoveries[i].workerId)
              /\ performHealthCheck(World, now, recoveries[i].workerId).isHealthy
    /\ Outcome(i)[1].type = "workerRecovered"
          => finishRecovery(AfterDelay(i), now, recoveries[i]).recoveryAttempts[recoveries[i].workerId] = 0

\* C38: an attemptWorkerRecovery call within budget adds exactly one to the
\* worker's attempt counter and emits workerRecoveryRequested once; after
\* recoveryDelayMs it emits exactly one of workerRecovered (the health check
\* passes; the counter goes to 0) and workerRecoveryFailed (otherwise), also
\* when the worker was unregistered or failed again during the delay.
C38_RecoveryAttemptOutcome ==
    [][/\ \A w \in WorkerIds :
             (MonitorAttemptWorkerRecovery(w) /\ recoveryAttempts[w] < RecoveryAttemptsCap)
                 => /\ recoveryAttempts'[w] = recoveryAttempts[w] + 1
                    /\ Len(EventsAbout("workerRecoveryRequested", w)') = 1
       /\ \A i \in DOMAIN recoveries : MonitorRecoveryTimerFires(i) => OutcomeSettled(i)]_vars

\* the same for the workers that are monitored when the delay is over
C38_OutcomeOfMonitoredWorker ==
    [][/\ \A w \in WorkerIds :
             (MonitorAttemptWorkerRecovery(w) /\ recoveryAttempts[w] < RecoveryAttemptsCap)
                 => /\ recoveryAttempts'[w] = recoveryAttempts[w] + 1
                    /\ Len(EventsAbout("workerRecoveryRequested", w)') = 1
       /\ \A i \in DOMAIN recoveries :
             (MonitorRecoveryTimerFires(i) /\ RegHas(hmWorkers, recoveries[i].workerId))
                 => OutcomeSettled(i)]_vars

\* the recovery attempts of the worker that are waiting for their delay
InFlight(w) == {i \in DOMAIN recoveries : recoveries[i].workerId = w}

\* C39: when a monitoring cycle fires while an earlier one is still waiting
\* for the recovery delay, at most one recovery attempt is in flight per
\* worker at any time.
C39_OneRecoveryInFlight ==
    \A w \in WorkerIds : Cardinality(InFlight(w)) <= 1

\* the same as long as the worker stays registered during the delay: a cycle
\* starts no attempt for a worker that has one in flight and whose counter
\* still carries it
C39_NoSecondAttemptWhileCounted ==
    [][MonitorCycle
          => \A w \in WorkerIds :
                (InFlight(w) # {} /\ recoveryAttempts[w] > 0)
                    => Cardinality(InFlight(w)') <= Cardinality(InFlight(w))]_vars

\* ------------------------------------------------------------------------
\* Claims about the choice of the worker

\* a <= b for two numbers (false when either is undefined or NaN)
NumLeq(a, b) == a >= 0 /\ b >= 0 /\ a <= b

\* the workers of the registry that are idle
IdleKeys(reg, heap) == {k \in RegKeys(reg) : heap[RegGet(reg, k)].status = "idle"}

\* worker k is idle and no idle worker of the registry has completed fewer tasks
IdleWithLeastLoad(reg, heap, k) ==
    /\ k \in IdleKeys(reg, heap)
    /\ \A k2 \in IdleKeys(reg, heap) :
          NumLeq(RegWorker(reg, heap, k).tasksCompleted, RegWorker(reg, heap, k2).tasksCompleted)

\* C40: distributeTask assigns the task to a worker that is idle at that
\* moment and whose tasksCompleted is minimal among the idle workers offered;
\* a busy, failed or offline worker is never selected.
C40_LeastLoadedIdleWorker ==
    [][\A task \in DOMAIN tasks :
          Dispatched(task) => IdleWithLeastLoad(workers, objs, tasks'[task].assignedWorker)]_vars

\* the same for the dispatches made while every entry of the registry is a
\* worker stored under its id
C40_AmongRegisteredWorkers ==
    [][\A task \in DOMAIN tasks :
          (Dispatched(task) /\ RegKeys(workers) \subseteq WorkerIds)
              => IdleWithLeastLoad(workers, objs, tasks'[task].assignedWorker)]_vars

\* a busy, failed or offline worker is never selected
C40_NeverSelectedUnlessIdle ==
    [][\A task \in DOMAIN tasks :
          Dispatched(task) => tasks'[task].assignedWorker \in IdleKeys(workers, objs)]_vars

====
